---------------------------- MODULE Spec2Model ----------------------------
(***************************************************************************)
(* Board lifecycle and inventory reconciliation of the PCBA tracking API   *)
(* (backend/api/pcba.py).                                                  *)
(*                                                                         *)
(* The store is the three tables of pcba.db (boards, board_history, slips) *)
(* and the columns am7 / au8 of the table scans of assembly.db (the        *)
(* consumption ledger).  Connections are opened with isolation_level=None, *)
(* so every statement is committed as it is executed and conn.commit() is  *)
(* a no-op: a handler that raises after a write leaves that write behind.  *)
(*                                                                         *)
(* Strings that the code inspects character by character (serial numbers)  *)
(* are sequences of one-character strings.  Time is counted in slots of    *)
(* eight hours of UTC; America/Los_Angeles is taken at UTC-8 (one slot).   *)
(* Columns of boards that no operation below reads back (batch_number,     *)
(* start_time, ng_reason, ng_time, created_at), the created_at /          *)
(* updated_at columns of slips, and the operator columns (written by the   *)
(* statements that write last_update and timestamp, from the caller's      *)
(* username) are not represented.                                          *)
(***************************************************************************)
EXTENDS Integers, Sequences, FiniteSets, TLC

VARIABLES
    boards,         \* table boards: a set of rows
    board_history,  \* table board_history: rows in insertion (rowid) order
    slips,          \* table slips: a set of rows
    scans,          \* assembly.db, table scans: [am7, au8] -> set of column values
    ledgerOK,       \* FALSE when assembly.db is absent, unreadable or has no scans table
    now,            \* the UTC clock, in slots
    nextId,         \* the millisecond timestamp that makes the next boards.id
    lastOp,         \* the request handled last and its outcome
    events,         \* the messages the last request handed to ws_manager.broadcast
    snap,           \* a statistics computation in progress: what it has read so far
    disk,           \* pcba.db's soundness, the seconds clock and the files moved aside
    ws,             \* ws_manager: its sockets and what each was sent
    calls           \* the requests that workers handle statement by statement

vars == <<boards, board_history, slips, scans, ledgerOK, now, nextId, lastOp, events, snap,
          disk, ws, calls>>

-----------------------------------------------------------------------------
(* Bounds of the model *)

MaxClock == 1       \* the clock runs over the slots 0 .. MaxClock
MaxHistory == 3     \* board_history holds at most this many rows
MaxIds == 1         \* at most this many boards are ever created
MaxTarget == 1      \* targetPairs ranges over 1 .. MaxTarget

(* Program constants *)

SlotsPerDay == 3    \* a day is three slots of eight hours
LAOffset == 1       \* America/Los_Angeles is one slot behind UTC

None == "None"      \* Python None / SQL NULL in a text position
NoTarget == -1      \* Python None in an integer position

FLOW == <<"aging", "coating", "completed">>
Stages == {"aging", "coating", "completed"}
ALLOWED_HARD_MODELS == {"AM7", "AU8"}

-----------------------------------------------------------------------------
(* Serial numbers *)

Str8034 == <<"1", "0", "0", "3", "0", "0", "3", "4">>
Str8035 == <<"1", "0", "0", "3", "0", "0", "3", "5">>

MODEL_PREFIXES == [AU8 |-> Str8035, AM7 |-> Str8034]

Upper(c) ==
    CASE c = "a" -> "A"
      [] c = "m" -> "M"
      [] c = "u" -> "U"
      [] c = "n" -> "N"
      [] c = "x" -> "X"
      [] OTHER -> c

RECURSIVE _normalize_serial_str(_)
_normalize_serial_str(s) ==
    IF s = <<>> THEN <<>>
    ELSE LET c == Upper(Head(s))
             rest == _normalize_serial_str(Tail(s))
         IN IF c \in {" ", "-"} THEN rest ELSE <<c>> \o rest

StartsWith(s, p) == Len(s) >= Len(p) /\ SubSeq(s, 1, Len(p)) = p

Contains(s, p) ==
    \E i \in 1..(Len(s) - Len(p) + 1) : SubSeq(s, i, i + Len(p) - 1) = p

infer_model(serial) ==
    LET s == _normalize_serial_str(serial)
    IN IF StartsWith(s, MODEL_PREFIXES.AU8) THEN "AU8"
       ELSE IF StartsWith(s, MODEL_PREFIXES.AM7) THEN "AM7"
       ELSE IF Contains(s, <<"A", "M", "7">>) THEN "AM7"
       ELSE IF Contains(s, <<"A", "U", "8">>) THEN "AU8"
       ELSE None

-----------------------------------------------------------------------------
(* Time *)

FloorDiv(a, b) == IF a >= 0 THEN a \div b ELSE -(((-a) + b - 1) \div b)

\* the calendar day, in Los Angeles, of a UTC timestamp
parse_to_la_date_key(ts) == FloorDiv(ts - LAOffset, SlotsPerDay)

today_la_key == parse_to_la_date_key(now)

\* a stage flow that steps over coating
next_stage_of_skip(curr) ==
    IF curr \in {"aging", "coating"} THEN "completed" ELSE None

next_stage_of(curr) ==
    IF curr = "aging" THEN "coating"
    ELSE IF curr = "coating" THEN "completed"
    ELSE None

-----------------------------------------------------------------------------
(* Rows, results and the view of the store a connection works on *)

Db == [boards |-> boards, board_history |-> board_history, slips |-> slips]

Ok == [status |-> 200, detail |-> "ok"]
Err(code, d) == [status |-> code, detail |-> d]

\* SELECT ... FROM boards WHERE serial_number=?   (serial_number is UNIQUE)
RowsBySerial(db, serial) == {b \in db.boards : b.serial_number = serial}

RowOf(db, serial) == CHOOSE b \in RowsBySerial(db, serial) : TRUE

\* SELECT ... FROM board_history WHERE board_id=? ORDER BY timestamp ASC
\* (timestamps are taken from a clock that never runs backward, so the
\* insertion order is the timestamp order)
HistoryOf(db, board_id) ==
    LET Mine(h) == h.board_id = board_id
    IN SelectSeq(db.board_history, Mine)

_row_to_board(db, row) == [row |-> row, history |-> HistoryOf(db, row.id)]

\* the board as returned to the caller: {} stands for None
_get_board_by_serial(db, serial) ==
    {_row_to_board(db, b) : b \in RowsBySerial(db, serial)}

_ensure_slip(db, slip_number, target_pairs) ==
    IF slip_number = None \/ slip_number = "" THEN db
    ELSE LET rows == {s \in db.slips : s.slip_number = slip_number}
         IN IF rows # {}
            THEN LET row == CHOOSE s \in rows : TRUE
                 IN IF target_pairs # NoTarget /\ target_pairs # row.target_pairs
                    THEN [db EXCEPT !.slips = (@ \ {row}) \cup
                            {[slip_number |-> slip_number, target_pairs |-> target_pairs]}]
                    ELSE db
            ELSE [db EXCEPT !.slips = @ \cup
                    {[slip_number |-> slip_number,
                      target_pairs |-> IF target_pairs = NoTarget THEN 0 ELSE target_pairs]}]

\* a creation check that accepts every stage of the flow
_validate_create_stage_any(stage) ==
    IF stage \notin Stages THEN Err(400, "Must start with Aging") ELSE Ok

_validate_create_stage(stage) ==
    IF stage # "aging" THEN Err(400, "Must start with Aging") ELSE Ok

_validate_update_sequential(db, serial, new_stage) ==
    IF RowsBySerial(db, serial) = {} THEN Ok
    ELSE LET curr == RowOf(db, serial).stage
         IN IF curr = "completed" THEN Err(400, "Board already Completed")
            ELSE IF new_stage # next_stage_of(curr) THEN Err(400, "Invalid order")
            ELSE Ok

DupScanLimit == 5   \* LIMIT 5 of the duplicate query

\* ... WHERE board_id=? AND stage=? ORDER BY timestamp DESC LIMIT 5
LatestScans(db, board_id, stage) ==
    LET H == db.board_history
        match == {i \in 1..Len(H) : H[i].board_id = board_id /\ H[i].stage = stage}
        Later(i) == {j \in match : H[j].timestamp > H[i].timestamp
                                   \/ (H[j].timestamp = H[i].timestamp /\ j > i)}
    IN {H[i] : i \in {k \in match : Cardinality(Later(k)) < DupScanLimit}}

\* a duplicate check that looks at the scans of every stage
_validate_no_duplicate_today_anystage(db, board_id, stage) ==
    IF \E st \in Stages : \E r \in LatestScans(db, board_id, st) :
            parse_to_la_date_key(r.timestamp) = today_la_key
    THEN Err(409, "Already scanned today")
    ELSE Ok

_validate_no_duplicate_today(db, board_id, stage) ==
    IF \E r \in LatestScans(db, board_id, stage) :
            parse_to_la_date_key(r.timestamp) = today_la_key
    THEN Err(409, "Already scanned today")
    ELSE Ok

-----------------------------------------------------------------------------
(* Stage changes and creation *)

Fail(db, e) == [status |-> e.status, detail |-> e.detail, db |-> db, board |-> {}]

Truthy(s) == s # None /\ s # ""

\* data: [serialNumber, stage, model, slipNumber, targetPairs]
_create_board_internal(db, data) ==
    IF RowsBySerial(db, data.serialNumber) # {}
    THEN Fail(db, Err(400, "Board already exists"))
    ELSE IF _validate_create_stage(data.stage) # Ok
    THEN Fail(db, _validate_create_stage(data.stage))
    ELSE LET model == IF data.model = "AUTO-DETECT"
                      THEN infer_model(data.serialNumber)
                      ELSE data.model
         IN IF model \notin ALLOWED_HARD_MODELS
            THEN Fail(db, Err(400, IF data.model = "AUTO-DETECT"
                                   THEN "Unrecognized model from serial"
                                   ELSE "Invalid model"))
            ELSE LET db1 == IF Truthy(data.slipNumber)
                            THEN _ensure_slip(db, data.slipNumber, data.targetPairs)
                            ELSE db
                     row == [id |-> nextId,
                             serial_number |-> data.serialNumber,
                             model |-> model,
                             stage |-> data.stage,
                             slip_number |-> data.slipNumber,
                             ng_flag |-> 0,
                             last_update |-> now]
                     hrow == [board_id |-> nextId, stage |-> data.stage,
                              timestamp |-> now,
                              notes |-> "create"]
                     db2 == [db1 EXCEPT !.boards = @ \cup {row},
                                        !.board_history = Append(@, hrow)]
                 IN [status |-> 200, detail |-> "ok", db |-> db2,
                     board |-> _get_board_by_serial(db2, data.serialNumber)]

\* a stage update that takes the same-stage return before the validations
_update_board_stage_internal_shortcut(db, serial_number, stage) ==
    IF RowsBySerial(db, serial_number) = {}
    THEN Fail(db, Err(404, "Board not found"))
    ELSE LET row == RowOf(db, serial_number)
             v1 == _validate_update_sequential(db, serial_number, stage)
             v2 == _validate_no_duplicate_today(db, row.id, stage)
         IN IF row.stage = stage
            THEN [status |-> 200, detail |-> "ok", db |-> db,
                  board |-> _get_board_by_serial(db, serial_number)]
            ELSE IF v1 # Ok THEN Fail(db, v1)
            ELSE IF v2 # Ok THEN Fail(db, v2)
            ELSE LET new == [row EXCEPT !.stage = stage, !.last_update = now]
                     hrow == [board_id |-> row.id, stage |-> stage,
                              timestamp |-> now,
                              notes |-> "stage"]
                     db2 == [db EXCEPT !.boards = (@ \ {row}) \cup {new},
                                       !.board_history = Append(@, hrow)]
                 IN [status |-> 200, detail |-> "ok", db |-> db2,
                     board |-> _get_board_by_serial(db2, serial_number)]

_update_board_stage_internal(db, serial_number, stage) ==
    IF RowsBySerial(db, serial_number) = {}
    THEN Fail(db, Err(404, "Board not found"))
    ELSE LET row == RowOf(db, serial_number)
             v1 == _validate_update_sequential(db, serial_number, stage)
             v2 == _validate_no_duplicate_today(db, row.id, stage)
         IN IF v1 # Ok THEN Fail(db, v1)
            ELSE IF v2 # Ok THEN Fail(db, v2)
            ELSE IF row.stage = stage
            THEN [status |-> 200, detail |-> "ok", db |-> db,
                  board |-> _get_board_by_serial(db, serial_number)]
            ELSE LET new == [row EXCEPT !.stage = stage, !.last_update = now]
                     hrow == [board_id |-> row.id, stage |-> stage,
                              timestamp |-> now,
                              notes |-> "stage"]
                     db2 == [db EXCEPT !.boards = (@ \ {row}) \cup {new},
                                       !.board_history = Append(@, hrow)]
                 IN [status |-> 200, detail |-> "ok", db |-> db2,
                     board |-> _get_board_by_serial(db2, serial_number)]

-----------------------------------------------------------------------------
(* Statistics *)

\* SQLite's UPPER, REPLACE(x, ch, '') and TRIM on the characters of the model
RECURSIVE SqlUpper(_)
SqlUpper(s) == IF s = <<>> THEN <<>> ELSE <<Upper(Head(s))>> \o SqlUpper(Tail(s))

RECURSIVE SqlRemove(_, _)
SqlRemove(s, ch) ==
    IF s = <<>> THEN <<>>
    ELSE IF Head(s) = ch THEN SqlRemove(Tail(s), ch)
    ELSE <<Head(s)>> \o SqlRemove(Tail(s), ch)

RECURSIVE SqlLTrim(_)
SqlLTrim(s) == IF s # <<>> /\ Head(s) = " " THEN SqlLTrim(Tail(s)) ELSE s

RECURSIVE SqlRTrim(_)
SqlRTrim(s) ==
    IF s # <<>> /\ s[Len(s)] = " " THEN SqlRTrim(SubSeq(s, 1, Len(s) - 1)) ELSE s

SqlTrim(s) == SqlRTrim(SqlLTrim(s))

\* REPLACE(REPLACE(UPPER(s.col), '-', ''), ' ', '')
SqlNorm(v) == SqlRemove(SqlRemove(SqlUpper(v), "-"), " ")

NullSerial == <<"NULL">>            \* SQL NULL in a serial column
NA == <<"N", "/", "A">>

\* the first query of _get_statistics
ReadTotals(bs) ==
    [total |-> Cardinality(bs),
     aging |-> Cardinality({b \in bs : b.stage = "aging"}),
     coating |-> Cardinality({b \in bs : b.stage = "coating"}),
     completed |-> Cardinality({b \in bs : b.stage = "completed"})]

\* the second query: GROUP BY UPPER(model); a model without rows has no bucket
ReadByModel(bs) ==
    [m \in {b.model : b \in bs} |-> ReadTotals({b \in bs : b.model = m})]

\* a count of completed units that does not leave out the defective ones
ReadCompletedByModel_raw(bs) ==
    [m \in ALLOWED_HARD_MODELS |->
        Cardinality({b \in bs : b.stage = "completed" /\ b.model = m})]

\* the third query: completed and not NG, per model
ReadCompletedByModel(bs) ==
    [m \in ALLOWED_HARD_MODELS |->
        Cardinality({b \in bs : b.stage = "completed" /\ b.ng_flag = 0 /\ b.model = m})]

\* the serials of every board of the model, whatever its stage and defect flag
FetchCompletedSerials_all(bs, mdl) ==
    {_normalize_serial_str(b.serial_number) : b \in {x \in bs : x.model = mdl}}

\* one query of _fetch_completed_serials_by_model; the list is only ever
\* inserted with INSERT OR IGNORE into a PRIMARY KEY column, so it is kept as a set
FetchCompletedSerials(bs, mdl) ==
    {_normalize_serial_str(b.serial_number) :
        b \in {x \in bs : x.stage = "completed" /\ x.ng_flag = 0 /\ x.model = mdl}}

_fetch_completed_serials_by_model(bs) ==
    [m \in ALLOWED_HARD_MODELS |-> FetchCompletedSerials(bs, m)]

ColumnOf(mdl) == IF mdl = "AM7" THEN "am7" ELSE "au8"

\* a count of the joined rows, COUNT(*), where the query has COUNT(DISTINCT ...)
_count_used_rows(ledger, column, values) ==
    IF values = {} THEN 0
    ELSE IF ~ledger.ok THEN 0
    ELSE Cardinality({x \in ledger.scans[column] :
                         /\ x # NullSerial
                         /\ SqlTrim(SqlUpper(x)) # NA
                         /\ SqlNorm(x) \in values})

Raised == -1        \* stands for an exception leaving the try block

\* the body of the try block of _count_used: connect to assembly.db, fill the
\* temporary table and count; connect or a statement raises when the file is
\* unreadable or has no table scans.  ledger: [ok, scans]
LedgerCount(ledger, column, values) ==
    IF ~ledger.ok THEN Raised
    ELSE Cardinality({SqlNorm(v) :
            v \in {x \in ledger.scans[column] :
                      /\ x # NullSerial
                      /\ SqlTrim(SqlUpper(x)) # NA
                      /\ SqlNorm(x) \in values}})

\* _count_used without its except clause
_count_used_uncaught(ledger, column, values) ==
    IF values = {} THEN 0 ELSE LedgerCount(ledger, column, values)

_count_used(ledger, column, values) ==
    IF values = {} THEN 0
    ELSE LET used == LedgerCount(ledger, column, values)
         IN IF used = Raised THEN 0 ELSE used

Max(a, b) == IF a >= b THEN a ELSE b
Min(a, b) == IF a <= b THEN a ELSE b

\* the subtraction without its floor
Available_unclamped(completed_good, used) == completed_good - used

Available(completed_good, used) == Max(completed_good - used, 0)

\* pairs taken from the more plentiful kind
PairsDone_max(avail_am7, avail_au8) == Max(avail_am7, avail_au8)

PairsDone(avail_am7, avail_au8) == Min(avail_am7, avail_au8)

\* the StageStats that _get_statistics builds from what it has read
\* (efficiency, a rounded float, is not represented)
MakeStats(totals, by_model, completed_by_model, used) ==
    LET avail_am7 == Available(completed_by_model["AM7"], used["AM7"])
        avail_au8 == Available(completed_by_model["AU8"], used["AU8"])
    IN [total |-> totals.total, aging |-> totals.aging, coating |-> totals.coating,
        completed |-> totals.completed, byModel |-> by_model,
        completedByModel |-> completed_by_model,
        consumedAM7 |-> used["AM7"], consumedAU8 |-> used["AU8"],
        consumedTotal |-> used["AM7"] + used["AU8"],
        availableAM7 |-> avail_am7, availableAU8 |-> avail_au8,
        availableTotal |-> avail_am7 + avail_au8,
        pairsDone |-> PairsDone(avail_am7, avail_au8)]

_assembly_usage_counts_limited_to_pcba(bs, ledger) ==
    LET serials == _fetch_completed_serials_by_model(bs)
    IN [m \in ALLOWED_HARD_MODELS |-> _count_used(ledger, ColumnOf(m), serials[m])]

\* _get_statistics when nothing is written between its reads
_get_statistics(bs, ledger) ==
    MakeStats(ReadTotals(bs), ReadByModel(bs), ReadCompletedByModel(bs),
              _assembly_usage_counts_limited_to_pcba(bs, ledger))

Ledger == [ok |-> ledgerOK, scans |-> scans]

-----------------------------------------------------------------------------
(* Subscribers (core/ws_manager.py).  ws.active is ConnectionManager.active; *)
(* a socket in ws.broken is one whose send_json raises; ws.inbox is what     *)
(* each socket was sent while the last request was handled and ws.dropped   *)
(* the sockets it removed after a failed send; ws.raised says that an        *)
(* exception left the broadcast.                                             *)

MaxSockets == 2     \* at most this many websockets exist

SocketIds == 1..MaxSockets

NoSockets ==
    [active |-> <<>>,
     client_state |-> [s \in SocketIds |-> "CONNECTING"],
     broken |-> {},
     inbox |-> [s \in SocketIds |-> <<>>],
     dropped |-> {},
     raised |-> FALSE]

InList(list, s) == \E i \in 1..Len(list) : list[i] = s

\* ConnectionManager.connect
ws_connect(w, s) ==
    IF InList(w.active, s) THEN w ELSE [w EXCEPT !.active = Append(@, s)]

\* ConnectionManager.disconnect
ws_disconnect(w, s) ==
    LET Others(x) == x # s
    IN [w EXCEPT !.active = SelectSeq(@, Others)]

\* _safe_send that lets the exception of send_json out: the broadcast stops
\* there and the handler fails
_safe_send_raising(w, s, message) ==
    IF w.client_state[s] # "CONNECTED" THEN w
    ELSE IF s \in w.broken THEN [w EXCEPT !.raised = TRUE]
    ELSE [w EXCEPT !.inbox[s] = Append(@, message)]

_safe_send(w, s, message) ==
    IF w.client_state[s] # "CONNECTED" THEN w
    ELSE IF s \in w.broken THEN [ws_disconnect(w, s) EXCEPT !.dropped = @ \cup {s}]
    ELSE [w EXCEPT !.inbox[s] = Append(@, message)]

\* for ws in sockets: await self._safe_send(ws, message)
RECURSIVE SendEach(_, _, _)
SendEach(w, sockets, message) ==
    IF sockets = <<>> \/ w.raised THEN w
    ELSE SendEach(_safe_send(w, Head(sockets), message), Tail(sockets), message)

\* ConnectionManager.broadcast: the sockets are those active when it starts
broadcast(w, message) == SendEach(w, w.active, message)

\* the broadcasts of one handler, in the order it makes them
RECURSIVE Broadcasts(_, _)
Broadcasts(w, messages) ==
    IF messages = <<>> \/ w.raised THEN w
    ELSE Broadcasts(broadcast(w, Head(messages)), Tail(messages))

-----------------------------------------------------------------------------

(* The store file and the files beside it.  disk.health is what opening     *)
(* pcba.db meets: "ok", or the step of open_conn that finds the damage       *)
(* ("open": _open_conn_raw raises; "execute": PRAGMA integrity_check raises; *)
(* "integrity_check": it answers something other than ok).  boards,          *)
(* board_history and slips are what the file holds, damaged or not.          *)
(* disk.side says that pcba.db-wal and pcba.db-shm exist; disk.sec is the    *)
(* UTC clock in seconds, which names the files moved aside; disk.files are   *)
(* those files.  Renames are taken to succeed.                               *)

MaxSec == 1         \* the seconds clock runs over 0 .. MaxSec
MaxQuarantine == 2  \* at most this many stores are moved aside

EmptyDb == [boards |-> {}, board_history |-> <<>>, slips |-> {}]

DiskSound ==
    [auto_repair |-> TRUE, health |-> "ok", side |-> FALSE, sec |-> 0, files |-> {}]

Damages == {"open", "execute", "integrity_check"}

\* the bytes of pcba.db, or of one of its side files
FileContent(dk, db, ext) ==
    IF ext = ""
    THEN [health |-> dk.health, boards |-> db.boards,
          board_history |-> db.board_history, slips |-> db.slips]
    ELSE [health |-> ext, boards |-> {}, board_history |-> <<>>, slips |-> {}]

\* for ext in ("", "-wal", "-shm"): p.replace(backup), and what p.replace
\* does to a file that already has the name
MoveAside(dk, db, prefix, tag) ==
    LET exts == {""} \cup (IF dk.side THEN {"-wal", "-shm"} ELSE {})
        moved == {[name |-> [prefix |-> prefix, ts |-> dk.sec, tag |-> tag, ext |-> e],
                   content |-> FileContent(dk, db, e)] : e \in exts}
    IN [dk EXCEPT !.files = {f \in @ : \A m \in moved : m.name # f.name} \cup moved]

\* _create_empty_schema on a path that holds no file
_create_empty_schema(dk) == [dk EXCEPT !.health = "ok", !.side = FALSE]

_backup_and_recreate(dk, db, tag) ==
    [status |-> 200, detail |-> "ok",
     dk |-> _create_empty_schema(MoveAside(dk, db, "corrupt", tag)),
     db |-> EmptyDb]

\* open_conn that repairs whatever AUTO_REPAIR says
open_conn_always_repair(dk, db) ==
    IF dk.health = "ok"
    THEN [status |-> 200, detail |-> "ok", dk |-> dk, db |-> db]
    ELSE _backup_and_recreate(dk, db, dk.health)

\* the three except clauses of open_conn differ in the tag alone
open_conn(dk, db) ==
    IF dk.health = "ok"
    THEN [status |-> 200, detail |-> "ok", dk |-> dk, db |-> db]
    ELSE IF ~dk.auto_repair
    THEN [status |-> 500, detail |-> "sqlite3.DatabaseError", dk |-> dk, db |-> db]
    ELSE _backup_and_recreate(dk, db, dk.health)

MainFiles(dk) == {f \in dk.files : f.name.ext = ""}

-----------------------------------------------------------------------------

(* Workers.  The service may run as several processes over one pcba.db;     *)
(* each statement is its own transaction (autocommit), so the statements of  *)
(* two handlers interleave.  calls[w] is the request worker w is handling:   *)
(* the statement it is at and what it has read.                              *)

Workers == {1, 2}

NoCall == [pc |-> "idle", op |-> None, serial |-> NullSerial, stage |-> None,
           id |-> None, old_stage |-> None, status |-> 0, detail |-> None]

NoCalls == [w \in Workers |-> NoCall]

-----------------------------------------------------------------------------

(* Requests.  Every handler takes an authenticated principal; only          *)
(* admin_edit_board and delete_board read its role.                         *)

Roles == {"admin", "operator"}

SN_AM7 == Str8034                 \* AM7 by prefix
SN_X == <<"x", "-", "1">>         \* no model can be inferred

SerialPool == {SN_AM7, SN_X}
SlipPool == {"P1"}
Targets == {NoTarget} \cup (1..MaxTarget)

BoardCreates ==
    [serialNumber : SerialPool, stage : Stages, model : {"AUTO-DETECT", "AU8"},
     slipNumber : {None} \cup SlipPool, targetPairs : Targets]

NoPatch == [newSerialNumber |-> NullSerial, model |-> None, stage |-> None,
            slipNumber |-> None, targetPairs |-> NoTarget, note |-> None]

\* BoardAdminUpdate: a sparse patch (batchNumber, startTime, lastUpdate and
\* operator are left unset)
AdminPatches ==
    {[NoPatch EXCEPT !.stage = st, !.newSerialNumber = ns] :
        st \in {None} \cup Stages, ns \in {NullSerial} \cup SerialPool}
    \cup {[NoPatch EXCEPT !.model = m] : m \in {"AM7", "AUTO-DETECT"}}
    \cup {[NoPatch EXCEPT !.slipNumber = sl, !.targetPairs = t] :
            sl \in SlipPool, t \in Targets}

\* a statistics message computed before the handler's write
StatsEvent_stale(db) ==
    [type |-> "statistics_update", statistics |-> _get_statistics(boards, Ledger)]

StatsEvent(db) ==
    [type |-> "statistics_update", statistics |-> _get_statistics(db.boards, Ledger)]

BoardEvent(action, b) == [type |-> "board_update", action |-> action, board |-> b]

\* scan_upsert publishes the board without an action
ScanEvent(b) == [type |-> "board_update", board |-> b]

\* no statistics computation is in progress
SnapIdle ==
    [pc |-> "idle", op |-> None, totals |-> <<>>, by_model |-> <<>>,
     completed_by_model |-> <<>>, serials |-> <<>>, ret |-> <<>>]

NoOp(op) == [op |-> op, role |-> None, serial |-> NullSerial, stage |-> None,
             model |-> None, slip |-> None, note |-> None, status |-> 0, detail |-> None,
             ret |-> {}]

\* no request is being answered
Idle == NoOp("idle")

\* what a handler leaves behind: the store, its answer and the messages it published
FinishN(op, role, serial, stage, model, note, status, detail, db, ret, evs) ==
    /\ boards' = db.boards
    /\ board_history' = db.board_history
    /\ slips' = db.slips
    /\ Len(db.board_history) > Len(board_history) => Len(db.board_history) <= MaxHistory
    /\ ws' = Broadcasts(ws, evs)
    /\ lastOp' = IF ws'.raised
                 THEN [NoOp(op) EXCEPT !.role = role, !.serial = serial, !.stage = stage,
                                       !.model = model, !.note = note, !.status = 500,
                                       !.detail = "Internal Server Error"]
                 ELSE [op |-> op, role |-> role, serial |-> serial, stage |-> stage,
                       model |-> model, slip |-> None, note |-> note, status |-> status,
                       detail |-> detail, ret |-> ret]
    /\ events' = evs
    /\ UNCHANGED <<scans, ledgerOK, calls, now, snap, disk>>

FinishM(op, role, serial, stage, model, status, detail, db, ret, evs) ==
    FinishN(op, role, serial, stage, model, None, status, detail, db, ret, evs)

Finish(op, role, serial, stage, status, detail, db, ret, evs) ==
    FinishM(op, role, serial, stage, None, status, detail, db, ret, evs)

\* what a handler of /slips leaves behind; it publishes nothing
FinishS(op, slip_number, status, detail, db) ==
    /\ boards' = db.boards
    /\ board_history' = db.board_history
    /\ slips' = db.slips
    /\ lastOp' = [NoOp(op) EXCEPT !.slip = slip_number, !.status = status,
                                  !.detail = detail]
    /\ events' = <<>>
    /\ UNCHANGED <<scans, ledgerOK, calls, now, snap, disk, ws>>

\* GET /boards/{serial_number}
get_board(serial) ==
    /\ lastOp = Idle
    /\
        LET b == _get_board_by_serial(Db, serial)
        IN /\ IF b = {}
              THEN Finish("get_board", None, serial, None, 404, "Board not found", Db, {}, <<>>)
              ELSE Finish("get_board", None, serial, None, 200, "ok", Db, b, <<>>)
           /\ UNCHANGED nextId

\* POST /boards
create_board(data) ==
    /\ lastOp = Idle
    /\
        LET r == _create_board_internal(Db, data)
        IN /\ nextId < MaxIds \/ r.status # 200
           /\ IF r.status = 200
              THEN /\ FinishM("create_board", None, data.serialNumber, data.stage, data.model,
                             201, "ok",
                             r.db, r.board,
                             <<BoardEvent("create", r.board), StatsEvent(r.db)>>)
                   /\ nextId' = nextId + 1
              ELSE /\ FinishM("create_board", None, data.serialNumber, data.stage, data.model,
                             r.status, r.detail, r.db, {}, <<>>)
                   /\ UNCHANGED nextId

\* PUT /boards/{serial_number}
update_board(serial, stage) ==
    /\ lastOp = Idle
    /\
        LET r == _update_board_stage_internal(Db, serial, stage)
        IN /\ IF r.status = 200
              THEN Finish("update_board", None, serial, stage, 200, "ok", r.db, r.board,
                          <<BoardEvent("update", r.board), StatsEvent(r.db)>>)
              ELSE Finish("update_board", None, serial, stage, r.status, r.detail, r.db,
                          {}, <<>>)
           /\ UNCHANGED nextId

\* POST /scan
scan_upsert(payload) ==
    /\ lastOp = Idle
    /\
        LET serial == payload.serialNumber
            db1 == IF Truthy(payload.slipNumber)
                   THEN _ensure_slip(Db, payload.slipNumber, payload.targetPairs)
                   ELSE Db
            existing == _get_board_by_serial(db1, serial)
            row == RowOf(db1, serial)
            attach == Truthy(payload.slipNumber) /\ row.slip_number # payload.slipNumber
            db2 == IF existing # {} /\ attach
                   THEN [db1 EXCEPT
                          !.boards = (@ \ {row}) \cup
                              {[row EXCEPT !.slip_number = payload.slipNumber,
                                           !.last_update = now]},
                          !.board_history = Append(@,
                              [board_id |-> row.id, stage |-> row.stage, timestamp |-> now,
                               notes |-> "attach slip"])]
                   ELSE db1
            r == IF existing # {}
                 THEN _update_board_stage_internal(db2, serial, payload.stage)
                 ELSE _create_board_internal(db1, payload)
            created == existing = {} /\ r.status = 200
        IN /\ nextId < MaxIds \/ ~created
           /\ nextId' = IF created THEN nextId + 1 ELSE nextId
           /\ IF r.status = 200
              THEN FinishM("scan_upsert", None, serial, payload.stage, payload.model, 200,
                           "ok", r.db, r.board, <<ScanEvent(r.board), StatsEvent(r.db)>>)
              ELSE FinishM("scan_upsert", None, serial, payload.stage, payload.model,
                           r.status, r.detail, r.db, {}, <<>>)

\* an edit that never appends a history row
new_stage_for_history_none(patch_stage, old_stage) == None

\* a history stage that is set whenever the patch names a stage
new_stage_for_history_any(patch_stage, old_stage) == patch_stage

\* None when the edit appends no history row
new_stage_for_history(patch_stage, old_stage) ==
    IF patch_stage # None /\ patch_stage # old_stage THEN patch_stage ELSE None

\* PATCH /boards/{serial_number}/admin
admin_edit_board(role, serial, patch) ==
    /\ lastOp = Idle
    /\
        IF role # "admin"
        THEN /\ FinishN("admin_edit_board", role, serial, None, None, patch.note, 403,
                       "Only administrators can edit boards", Db, {}, <<>>)
             /\ UNCHANGED nextId
        ELSE IF RowsBySerial(Db, serial) = {}
        THEN /\ FinishN("admin_edit_board", role, serial, None, None, patch.note, 404,
                       "Board not found", Db, {}, <<>>)
             /\ UNCHANGED nextId
        ELSE
        LET row == RowOf(Db, serial)
            mdl == IF patch.model = "AUTO-DETECT" /\ infer_model(row.serial_number) # None
                   THEN infer_model(row.serial_number)
                   ELSE patch.model
            row1 == [row EXCEPT
                        !.model = IF patch.model # None THEN mdl ELSE @,
                        !.stage = IF patch.stage # None THEN patch.stage ELSE @,
                        !.slip_number = IF patch.slipNumber # None THEN patch.slipNumber ELSE @,
                        !.last_update = now]
            db1 == [Db EXCEPT !.boards = (@ \ {row}) \cup {row1}]
            db2 == IF new_stage_for_history(patch.stage, row.stage) # None
                   THEN [db1 EXCEPT !.board_history = Append(@,
                            [board_id |-> row.id,
                             stage |-> new_stage_for_history(patch.stage, row.stage),
                             timestamp |-> now,
                             notes |-> IF Truthy(patch.note) THEN patch.note
                                       ELSE "admin edit"])]
                   ELSE db1
            rename == patch.newSerialNumber # NullSerial
                      /\ patch.newSerialNumber # row.serial_number
            db3 == IF rename
                   THEN [db2 EXCEPT !.boards = (@ \ {row1}) \cup
                            {[row1 EXCEPT !.serial_number = patch.newSerialNumber]}]
                   ELSE db2
            db4 == IF Truthy(patch.slipNumber)
                   THEN _ensure_slip(db3, patch.slipNumber, patch.targetPairs)
                   ELSE db3
            new_sn == IF patch.newSerialNumber # NullSerial THEN patch.newSerialNumber
                      ELSE row.serial_number
            b == _get_board_by_serial(db4, new_sn)
        IN /\ UNCHANGED nextId
           /\ IF patch.model # None /\ mdl \notin ALLOWED_HARD_MODELS
              THEN FinishN("admin_edit_board", role, serial, None, None, patch.note, 400,
                          "Invalid model", Db, {}, <<>>)
              ELSE IF rename /\ RowsBySerial(db2, patch.newSerialNumber) # {}
              THEN FinishN("admin_edit_board", role, serial, None, None, patch.note, 400,
                          "Serial already exists", db2, {}, <<>>)
              ELSE FinishN("admin_edit_board", role, serial, None, None, patch.note, 200, "ok", db4, b,
                          <<BoardEvent("admin_edit", b), StatsEvent(db4)>>)

\* delete_board that deletes the row of boards alone
delete_board_row_only(role, serial) ==
    /\ lastOp = Idle
    /\
        /\ UNCHANGED nextId
        /\ IF role # "admin"
           THEN Finish("delete_board", role, serial, None, 403,
                       "Only administrators can delete boards", Db, {}, <<>>)
           ELSE IF RowsBySerial(Db, serial) = {}
           THEN Finish("delete_board", role, serial, None, 404, "Board not found", Db,
                       {}, <<>>)
           ELSE LET bid == RowOf(Db, serial).id
                    db1 == [Db EXCEPT !.boards = {b \in @ : b.id # bid}]
                IN Finish("delete_board", role, serial, None, 200, "ok", db1, {},
                          <<[type |-> "board_deleted", serialNumber |-> serial],
                            StatsEvent(db1)>>)

\* DELETE /boards/{serial_number}
delete_board(role, serial) ==
    /\ lastOp = Idle
    /\
        /\ UNCHANGED nextId
        /\ IF role # "admin"
           THEN Finish("delete_board", role, serial, None, 403,
                       "Only administrators can delete boards", Db, {}, <<>>)
           ELSE IF RowsBySerial(Db, serial) = {}
           THEN Finish("delete_board", role, serial, None, 404, "Board not found", Db,
                       {}, <<>>)
           ELSE LET bid == RowOf(Db, serial).id
                    Others(h) == h.board_id # bid
                    db1 == [Db EXCEPT !.board_history = SelectSeq(@, Others),
                                      !.boards = {b \in @ : b.id # bid}]
                IN Finish("delete_board", role, serial, None, 200, "ok", db1, {},
                          <<[type |-> "board_deleted", serialNumber |-> serial],
                            StatsEvent(db1)>>)

\* mark_ng without its lookup: the UPDATE matches no row and the call succeeds
mark_ng_unchecked(serial, ng) ==
    /\ lastOp = Idle
    /\ UNCHANGED nextId
    /\ LET rows == RowsBySerial(Db, serial)
           db1 == [Db EXCEPT !.boards = (@ \ rows) \cup
                        {[r EXCEPT !.ng_flag = IF ng THEN 1 ELSE 0,
                                   !.last_update = now] : r \in rows}]
           b == _get_board_by_serial(db1, serial)
       IN Finish("mark_ng", None, serial, None, 200, "ok", db1, b,
                 <<BoardEvent("ng", b), StatsEvent(db1)>>)

\* PATCH /boards/{serial_number}/ng
mark_ng(serial, ng) ==
    /\ lastOp = Idle
    /\
        /\ UNCHANGED nextId
        /\ IF RowsBySerial(Db, serial) = {}
           THEN Finish("mark_ng", None, serial, None, 404, "Board not found", Db, {}, <<>>)
           ELSE LET row == RowOf(Db, serial)
                    new == [row EXCEPT !.ng_flag = IF ng THEN 1 ELSE 0,
                                       !.last_update = now]
                    db1 == [Db EXCEPT !.boards = (@ \ {row}) \cup {new}]
                    b == _get_board_by_serial(db1, serial)
                IN Finish("mark_ng", None, serial, None, 200, "ok", db1, b,
                          <<BoardEvent("ng", b), StatsEvent(db1)>>)

\* POST /slips
upsert_slip(slip_number, target_pairs) ==
    /\ lastOp = Idle
    /\
        /\ UNCHANGED nextId
        /\ FinishS("upsert_slip", slip_number, 200, "ok",
                   _ensure_slip(Db, slip_number, target_pairs))

\* PATCH /slips/{slip_number}
update_slip_target(slip_number, target_pairs) ==
    /\ lastOp = Idle
    /\
        /\ UNCHANGED nextId
        /\ FinishS("update_slip_target", slip_number, 200, "ok",
                   [Db EXCEPT !.slips = {s \in @ : s.slip_number # slip_number} \cup
                        {[slip_number |-> slip_number, target_pairs |-> target_pairs]}])

\* delete_slip without its count of the boards that name the slip
delete_slip_unchecked(slip_number) ==
    /\ lastOp = Idle
    /\ UNCHANGED nextId
    /\ FinishS("delete_slip", slip_number, 200, "ok",
               [Db EXCEPT !.slips = {s \in @ : s.slip_number # slip_number}])

\* DELETE /slips/{slip_number}
delete_slip(slip_number) ==
    /\ lastOp = Idle
    /\
        /\ UNCHANGED nextId
        /\ IF Cardinality({b \in boards : b.slip_number = slip_number}) > 0
           THEN FinishS("delete_slip", slip_number, 409,
                        "Cannot delete: related boards exist", Db)
           ELSE FinishS("delete_slip", slip_number, 200, "ok",
                        [Db EXCEPT !.slips = {s \in @ : s.slip_number # slip_number}])

\* the answer has been sent and the published messages delivered
Respond ==
    /\ lastOp # Idle
    /\ lastOp' = Idle
    /\ events' = <<>>
    /\ ws' = [ws EXCEPT !.inbox = [s \in SocketIds |-> <<>>], !.dropped = {}]
    /\ UNCHANGED <<boards, board_history, slips, scans, ledgerOK, calls, now, nextId, snap, disk>>

\* time passes between requests
Tick ==
    /\ lastOp = Idle
    /\ now < MaxClock
    /\ now' = now + 1
    /\ UNCHANGED <<boards, board_history, slips, scans, ledgerOK, calls, nextId, lastOp,
                   events, snap, disk, ws>>

-----------------------------------------------------------------------------
(* The service: one request at a time, each handled to its end *)

Init ==
    /\ boards = {}
    /\ board_history = <<>>
    /\ slips = {}
    /\ scans = [am7 |-> {}, au8 |-> {}]
    /\ ledgerOK = TRUE
    /\ now = 0
    /\ nextId = 0
    /\ lastOp = Idle
    /\ events = <<>>
    /\ snap = SnapIdle
    /\ disk = DiskSound
    /\ ws = NoSockets
    /\ calls = NoCalls

Next ==
    \/ \E sn \in SerialPool : get_board(sn)
    \/ \E d \in BoardCreates : create_board(d)
    \/ \E sn \in SerialPool, st \in Stages : update_board(sn, st)
    \/ \E d \in BoardCreates : scan_upsert(d)
    \/ \E r \in Roles, sn \in SerialPool, p \in AdminPatches : admin_edit_board(r, sn, p)
    \/ \E r \in Roles, sn \in SerialPool : delete_board(r, sn)
    \/ \E sn \in SerialPool, ng \in BOOLEAN : mark_ng(sn, ng)
    \/ \E sl \in SlipPool, t \in 0..MaxTarget : upsert_slip(sl, t)
    \/ \E sl \in SlipPool, t \in 0..MaxTarget : update_slip_target(sl, t)
    \/ \E sl \in SlipPool : delete_slip(sl)
    \/ Respond
    \/ Tick

Spec == Init /\ [][Next]_vars

-----------------------------------------------------------------------------
(* Statistics computed beside a writer.  The connection is in autocommit,   *)
(* so each SELECT of _get_statistics reads the store as it is at that       *)
(* moment, and another process of the service may write between two of      *)
(* them.  snap is the computation in progress.                              *)

\* GET /inventory: the projection of the statistics it returns
InventorySummary(stats) ==
    [availableAM7 |-> stats.availableAM7, availableAU8 |-> stats.availableAU8,
     availableTotal |-> stats.availableTotal,
     usedAM7 |-> stats.consumedAM7, usedAU8 |-> stats.consumedAU8,
     usedTotal |-> stats.consumedTotal,
     completedAM7 |-> stats.completedByModel["AM7"],
     completedAU8 |-> stats.completedByModel["AU8"],
     pairsAvailable |-> Min(stats.availableAM7, stats.availableAU8)]

StatsOps == {"get_statistics", "get_inventory_summary"}

StatsUnchanged ==
    UNCHANGED <<boards, board_history, slips, scans, ledgerOK, calls, now, nextId, lastOp,
                events, disk, ws>>

\* GET /statistics or GET /inventory enters _get_statistics: the first query
_get_statistics_totals(op) ==
    /\ snap.pc = "idle"
    /\ snap' = [snap EXCEPT !.pc = "by_model", !.op = op, !.totals = ReadTotals(boards)]
    /\ StatsUnchanged

\* the second query
_get_statistics_by_model ==
    /\ snap.pc = "by_model"
    /\ snap' = [snap EXCEPT !.pc = "completed_by_model",
                            !.by_model = ReadByModel(boards)]
    /\ StatsUnchanged

\* the third query
_get_statistics_completed_by_model ==
    /\ snap.pc = "completed_by_model"
    /\ snap' = [snap EXCEPT !.pc = "fetch_AM7",
                            !.completed_by_model = ReadCompletedByModel(boards),
                            !.serials = [m \in ALLOWED_HARD_MODELS |-> {}]]
    /\ StatsUnchanged

\* one turn of the loop of _fetch_completed_serials_by_model
_fetch_completed_serials_step(mdl) ==
    /\ snap.pc = IF mdl = "AM7" THEN "fetch_AM7" ELSE "fetch_AU8"
    /\ snap' = [snap EXCEPT !.pc = IF mdl = "AM7" THEN "fetch_AU8" ELSE "count",
                            !.serials[mdl] = FetchCompletedSerials(boards, mdl)]
    /\ StatsUnchanged

\* the two ledger counts, the arithmetic and the handler's return
_get_statistics_return ==
    /\ snap.pc = "count"
    /\ LET used == [m \in ALLOWED_HARD_MODELS |->
                        _count_used(Ledger, ColumnOf(m), snap.serials[m])]
           stats == MakeStats(snap.totals, snap.by_model, snap.completed_by_model, used)
       IN snap' = [snap EXCEPT !.pc = "done",
                               !.ret = IF snap.op = "get_inventory_summary"
                                       THEN InventorySummary(stats)
                                       ELSE stats]
    /\ StatsUnchanged

\* the response has been read
StatsRespond ==
    /\ snap.pc = "done"
    /\ snap' = SnapIdle
    /\ StatsUnchanged

\* The floor this specification starts from: three units already processed,
\* two AM7 whose serials differ only by case and a dash (the second is at
\* coating or completed), and one AU8 whose serial is the text the ledger uses
\* for "no serial".
SN_am1 == <<"a", "m", "1">>
SN_AM_1 == <<"A", "M", "-", "1">>
SN_na == <<"n", "/", "a">>

\* the units whose defect flag is written while statistics are computed
StatsSerials == {SN_am1, SN_AM_1}

StatsRow(id, serial, mdl, stage, ng) ==
    [id |-> id, serial_number |-> serial, model |-> mdl, stage |-> stage,
     slip_number |-> None, ng_flag |-> ng, last_update |-> 0]

\* the history rows its scans left for a board
RECURSIVE StatsHistory(_, _)
StatsHistory(id, stage) ==
    IF stage = "aging"
    THEN <<[board_id |-> id, stage |-> "aging", timestamp |-> 0, notes |-> "create"]>>
    ELSE StatsHistory(id, IF stage = "completed" THEN "coating" ELSE "aging")
            \o <<[board_id |-> id, stage |-> stage, timestamp |-> 0, notes |-> "stage"]>>

\* what the scans table holds in each column
Am7Pool == {<<"A", "M", "1">>, <<"a", "m", "-", "1">>}
Au8Pool == {<<"n", "/", "a", " ">>, <<"N", "-", "/", "A">>, <<"A", "M", "1">>}

InitStats ==
    /\ \E st2 \in {"coating", "completed"}, ng1, ng2, ng3 \in 0..1 :
          /\ st2 = "coating" => ng2 = 0
          /\ boards = {StatsRow(0, SN_am1, "AM7", "completed", ng1),
                       StatsRow(1, SN_AM_1, "AM7", st2, ng2),
                       StatsRow(2, SN_na, "AU8", "completed", ng3)}
          /\ board_history = StatsHistory(0, "completed") \o StatsHistory(1, st2)
                                \o StatsHistory(2, "completed")
    /\ slips = {}
    /\ ledgerOK \in BOOLEAN
    /\ scans \in [am7 : SUBSET Am7Pool, au8 : SUBSET Au8Pool]
    /\ ~ledgerOK => scans = [am7 |-> {}, au8 |-> {}]
    /\ now = 0
    /\ nextId = 3
    /\ lastOp = Idle
    /\ events = <<>>
    /\ snap = SnapIdle
    /\ disk = DiskSound
    /\ ws = NoSockets
    /\ calls = NoCalls

NextStats ==
    \/ \E op \in StatsOps : _get_statistics_totals(op)
    \/ _get_statistics_by_model
    \/ _get_statistics_completed_by_model
    \/ \E mdl \in ALLOWED_HARD_MODELS : _fetch_completed_serials_step(mdl)
    \/ _get_statistics_return
    \/ StatsRespond
    \/ \E sn \in StatsSerials, ng \in BOOLEAN : mark_ng(sn, ng)
    \/ Respond

SpecStats == InitStats /\ [][NextStats]_vars

-----------------------------------------------------------------------------
(* Packing slip progress: GET /slips/{slip_number}/status *)

\* the boards of a slip at a stage, whatever their defect flag
SlipBoards(db, slip_number, stage) ==
    {b \in db.boards : b.slip_number = slip_number /\ b.stage = stage}

\* _pairs_for_stage with the defective boards counted in
_pairs_for_stage_raw(db, slip_number, stage) ==
    LET by_model == [m \in ALLOWED_HARD_MODELS |->
                        Cardinality({b \in SlipBoards(db, slip_number, stage) :
                                        b.model = m})]
    IN Min(by_model["AM7"], by_model["AU8"])

\* the stored model is upper case already, so UPPER(model) is the model
_pairs_for_stage(db, slip_number, stage) ==
    LET by_model == [m \in ALLOWED_HARD_MODELS |->
                        Cardinality({b \in SlipBoards(db, slip_number, stage) :
                                        b.model = m /\ b.ng_flag = 0})]
    IN Min(by_model["AM7"], by_model["AU8"])

_slip_status(db, slip_number) ==
    LET row == {s \in db.slips : s.slip_number = slip_number}
        target_pairs == IF row = {} THEN 0 ELSE (CHOOSE s \in row : TRUE).target_pairs
        cnt_by_stage == [st \in Stages |-> Cardinality(SlipBoards(db, slip_number, st))]
        aging_pairs == _pairs_for_stage(db, slip_number, "aging")
        coating_pairs == _pairs_for_stage(db, slip_number, "coating")
        completed_pairs == _pairs_for_stage(db, slip_number, "completed")
        wip_pairs == aging_pairs + coating_pairs
        by_m == [m \in ALLOWED_HARD_MODELS |->
                    Cardinality({b \in SlipBoards(db, slip_number, "completed") :
                                    b.model = m /\ b.ng_flag = 0})]
    IN [slipNumber |-> slip_number,
        targetPairs |-> target_pairs,
        aging |-> cnt_by_stage["aging"],
        coating |-> cnt_by_stage["coating"],
        completed |-> cnt_by_stage["completed"],
        completedAM7 |-> by_m["AM7"],
        completedAU8 |-> by_m["AU8"],
        completedPairs |-> completed_pairs,
        remainingPairs |-> Max(target_pairs - completed_pairs, 0),
        agingPairs |-> aging_pairs,
        coatingPairs |-> coating_pairs,
        wipPairs |-> wip_pairs,
        remainingPairsAfterWIP |->
            Max(target_pairs - Min(target_pairs, completed_pairs + wip_pairs), 0)]

\* GET /slips/{slip_number}/status
slip_status(slip_number) ==
    /\ lastOp = Idle
    /\ lastOp' = [NoOp("slip_status") EXCEPT !.slip = slip_number, !.status = 200,
                                             !.detail = "ok",
                                             !.ret = {_slip_status(Db, slip_number)}]
    /\ events' = <<>>
    /\ UNCHANGED <<boards, board_history, slips, scans, ledgerOK, calls, now, nextId, snap,
                   disk, ws>>

MaxSlipTarget == 3      \* the slip's target ranges over 0 .. MaxSlipTarget

SN_AM7b == <<"A", "M", "7", "b">>
SN_AU8a == <<"A", "U", "8", "a">>
SN_AU8b == <<"A", "U", "8", "b">>

\* the boards whose defect flag is written between two readings of the slip
SlipSerials == {SN_AM7, SN_AU8a}

\* the slips asked about: one that exists and one that does not
SlipQueries == SlipPool \cup {"P0"}

SlipRow(id, serial, mdl, stage, ng, slip_number) ==
    [StatsRow(id, serial, mdl, stage, ng) EXCEPT !.slip_number = slip_number]

\* four boards that came through the slip P1, two of each model
InitSlip ==
    /\ \E st0, st1, st2, st3 \in Stages, ng0, ng2 \in 0..1, sl3 \in SlipPool \cup {None} :
          /\ boards = {SlipRow(0, SN_AM7, "AM7", st0, ng0, "P1"),
                       SlipRow(1, SN_AM7b, "AM7", st1, 0, "P1"),
                       SlipRow(2, SN_AU8a, "AU8", st2, ng2, "P1"),
                       SlipRow(3, SN_AU8b, "AU8", st3, 0, sl3)}
          /\ board_history = StatsHistory(0, st0) \o StatsHistory(1, st1)
                                \o StatsHistory(2, st2) \o StatsHistory(3, st3)
    /\ \E t \in 0..MaxSlipTarget : slips = {[slip_number |-> "P1", target_pairs |-> t]}
    /\ scans = [am7 |-> {}, au8 |-> {}]
    /\ ledgerOK = TRUE
    /\ now = 0
    /\ nextId = 4
    /\ lastOp = Idle
    /\ events = <<>>
    /\ snap = SnapIdle
    /\ disk = DiskSound
    /\ ws = NoSockets
    /\ calls = NoCalls

NextSlip ==
    \/ \E sl \in SlipQueries : slip_status(sl)
    \/ \E sn \in SlipSerials, ng \in BOOLEAN : mark_ng(sn, ng)
    \/ \E sl \in SlipPool, t \in 0..MaxSlipTarget : update_slip_target(sl, t)
    \/ Respond

SpecSlip == InitSlip /\ [][NextSlip]_vars

-----------------------------------------------------------------------------

(* Opening and repairing the store.  Every request opens the store first    *)
(* (get_pcba_db); scan_upsert below stands for a request whose open_conn     *)
(* found the store sound.                                                    *)

StoreUnchangedVars == UNCHANGED <<scans, ledgerOK, calls, now, nextId, snap, ws>>

\* the dependency get_pcba_db: open_conn, then close
get_pcba_db ==
    /\ lastOp = Idle
    /\ LET r == open_conn(disk, Db)
       IN /\ Cardinality(MainFiles(r.dk)) <= MaxQuarantine
          /\ disk' = r.dk
          /\ boards' = r.db.boards
          /\ board_history' = r.db.board_history
          /\ slips' = r.db.slips
          /\ lastOp' = [NoOp("open_conn") EXCEPT !.status = r.status, !.detail = r.detail]
    /\ events' = <<>>
    /\ StoreUnchangedVars

\* GET /maintenance/health
pcba_db_health ==
    /\ lastOp = Idle
    /\ LET r == open_conn(disk, Db)
       IN /\ Cardinality(MainFiles(r.dk)) <= MaxQuarantine
          /\ disk' = r.dk
          /\ boards' = r.db.boards
          /\ board_history' = r.db.board_history
          /\ slips' = r.db.slips
          /\ lastOp' = IF r.status # 200
                       THEN [NoOp("pcba_db_health") EXCEPT !.status = r.status,
                                                           !.detail = r.detail]
                       ELSE [NoOp("pcba_db_health") EXCEPT
                                !.status = 200, !.detail = "ok",
                                !.ret = {[ok |-> r.dk.health = "ok", detail |-> r.dk.health]}]
    /\ events' = <<>>
    /\ StoreUnchangedVars

\* POST /maintenance/repair
pcba_db_repair(role) ==
    /\ lastOp = Idle
    /\ IF role # "admin"
       THEN /\ lastOp' = [NoOp("pcba_db_repair") EXCEPT
                             !.role = role, !.status = 403,
                             !.detail = "Only administrators can repair the database"]
            /\ UNCHANGED <<disk, boards, board_history, slips>>
       ELSE LET moved == MoveAside(disk, Db, "manual", "")
            IN /\ Cardinality(MainFiles(moved)) <= MaxQuarantine
               /\ disk' = _create_empty_schema(moved)
               /\ boards' = {}
               /\ board_history' = <<>>
               /\ slips' = {}
               /\ lastOp' = [NoOp("pcba_db_repair") EXCEPT
                                !.role = role, !.status = 200, !.detail = "ok",
                                !.ret = {f.name : f \in {g \in moved.files :
                                            /\ g.name.prefix = "manual"
                                            /\ g.name.ts = disk.sec}}]
    /\ events' = <<>>
    /\ StoreUnchangedVars

\* the file is damaged between two requests
Damage(kind, side) ==
    /\ lastOp = Idle
    /\ disk.health = "ok"
    /\ disk' = [disk EXCEPT !.health = kind, !.side = side]
    /\ UNCHANGED <<boards, board_history, slips, scans, ledgerOK, calls, now, nextId, lastOp,
                   events, snap, ws>>

\* a second passes
TickSecond ==
    /\ lastOp = Idle
    /\ disk.sec < MaxSec
    /\ disk' = [disk EXCEPT !.sec = @ + 1]
    /\ UNCHANGED <<boards, board_history, slips, scans, ledgerOK, calls, now, nextId, lastOp,
                   events, snap, ws>>

\* the scans that fill the store between two repairs
StoreScans ==
    {d \in BoardCreates : /\ d.serialNumber = SN_AM7
                          /\ d.model = "AUTO-DETECT"
                          /\ d.stage \in {"aging", "coating"}
                          /\ d.slipNumber = None
                          /\ d.targetPairs = NoTarget}

InitStore ==
    /\ boards = {}
    /\ board_history = <<>>
    /\ slips = {}
    /\ scans = [am7 |-> {}, au8 |-> {}]
    /\ ledgerOK = TRUE
    /\ now = 0
    /\ nextId = 0
    /\ lastOp = Idle
    /\ events = <<>>
    /\ snap = SnapIdle
    /\ \E auto \in BOOLEAN : disk = [DiskSound EXCEPT !.auto_repair = auto]
    /\ ws = NoSockets
    /\ calls = NoCalls

NextStore ==
    \/ get_pcba_db
    \/ pcba_db_health
    \/ \E r \in Roles : pcba_db_repair(r)
    \/ \E k \in Damages, side \in BOOLEAN : Damage(k, side)
    \/ TickSecond
    \/ \E d \in StoreScans : disk.health = "ok" /\ scan_upsert(d)
    \/ Respond

SpecStore == InitStore /\ [][NextStore]_vars

-----------------------------------------------------------------------------

(* Publication to subscribers.  A websocket is accepted and recorded        *)
(* (api/ws_router.py), its peer may vanish without a close, and its route    *)
(* ends by removing it from ws_manager.                                      *)

WsUnchanged ==
    UNCHANGED <<boards, board_history, slips, scans, ledgerOK, calls, now, nextId, lastOp,
                events, snap, disk>>

\* websocket.accept() and ws_manager.connect
Connect(s) ==
    /\ ws.client_state[s] = "CONNECTING"
    /\ ws' = [ws_connect(ws, s) EXCEPT !.client_state[s] = "CONNECTED"]
    /\ WsUnchanged

\* the peer is gone and nothing has noticed: the next send_json raises
PeerLost(s) ==
    /\ ws.client_state[s] = "CONNECTED"
    /\ s \notin ws.broken
    /\ ws' = [ws EXCEPT !.broken = @ \cup {s}]
    /\ WsUnchanged

\* a close frame has been received: the route has yet to reach its finally
Closed(s) ==
    /\ ws.client_state[s] = "CONNECTED"
    /\ ws' = [ws EXCEPT !.client_state[s] = "DISCONNECTED"]
    /\ WsUnchanged

\* finally: await ws_manager.disconnect(websocket)
Leave(s) ==
    /\ ws.client_state[s] = "DISCONNECTED"
    /\ InList(ws.active, s)
    /\ ws' = ws_disconnect(ws, s)
    /\ WsUnchanged

\* the requests that publish while sockets come and go
WsScans ==
    {d \in BoardCreates : /\ d.serialNumber = SN_AM7
                          /\ d.model = "AUTO-DETECT"
                          /\ d.slipNumber = None
                          /\ d.targetPairs = NoTarget}

InitWs ==
    /\ boards = {}
    /\ board_history = <<>>
    /\ slips = {}
    /\ scans = [am7 |-> {}, au8 |-> {}]
    /\ ledgerOK = TRUE
    /\ now = 0
    /\ nextId = 0
    /\ lastOp = Idle
    /\ events = <<>>
    /\ snap = SnapIdle
    /\ disk = DiskSound
    /\ ws = NoSockets
    /\ calls = NoCalls

NextWs ==
    \/ \E s \in SocketIds : Connect(s)
    \/ \E s \in SocketIds : PeerLost(s)
    \/ \E s \in SocketIds : Closed(s)
    \/ \E s \in SocketIds : Leave(s)
    \/ \E d \in WsScans : scan_upsert(d)
    \/ \E ng \in BOOLEAN : mark_ng(SN_AM7, ng)
    \/ delete_board("admin", SN_AM7)
    \/ Respond

SpecWs == InitWs /\ [][NextWs]_vars

-----------------------------------------------------------------------------

(* Two boards.  The store holds a board created earlier, whose serial and   *)
(* the serial of the requests differ by case and a hyphen only.             *)

UnitSerials == {SN_am1, SN_AM_1}

UnitCreates ==
    {d \in [serialNumber : UnitSerials, stage : Stages, model : {"AU8"},
            slipNumber : {None} \cup SlipPool, targetPairs : {NoTarget}] :
        d.stage # "completed"}

UnitPatches ==
    {[NoPatch EXCEPT !.stage = st, !.newSerialNumber = ns, !.slipNumber = sl,
                     !.note = nt] :
        st \in {None} \cup Stages, ns \in {NullSerial} \cup UnitSerials,
        sl \in {None} \cup SlipPool, nt \in {None, "rework"}}

InitUnits ==
    /\ \E st \in {"aging", "coating"} :
          /\ boards = {StatsRow(-1, SN_am1, "AM7", st, 0)}
          /\ board_history = StatsHistory(-1, st)
    /\ slips = {}
    /\ scans = [am7 |-> {}, au8 |-> {}]
    /\ ledgerOK = TRUE
    /\ now = 0
    /\ nextId = 0
    /\ lastOp = Idle
    /\ events = <<>>
    /\ snap = SnapIdle
    /\ disk = DiskSound
    /\ ws = NoSockets
    /\ calls = NoCalls

NextUnits ==
    \/ \E d \in UnitCreates : create_board(d)
    \/ \E d \in UnitCreates : scan_upsert(d)
    \/ \E sn \in UnitSerials, st \in Stages : update_board(sn, st)
    \/ \E sn \in UnitSerials, p \in UnitPatches : admin_edit_board("admin", sn, p)
    \/ \E sn \in UnitSerials : delete_board("admin", sn)
    \/ \E sl \in SlipPool : upsert_slip(sl, 0)
    \/ \E sl \in SlipPool : update_slip_target(sl, 1)
    \/ \E sl \in SlipPool : delete_slip(sl)
    \/ Respond

SpecUnits == InitUnits /\ [][NextUnits]_vars

-----------------------------------------------------------------------------

(* Two workers on one serial.  The steps are the statements of              *)
(* _update_board_stage_internal and _create_board_internal, up to the        *)
(* value they return; what the route publishes afterwards is left out.       *)

RaceSerial == SN_AM7

RaceUnchanged == UNCHANGED <<slips, scans, ledgerOK, now, lastOp, events, snap, disk, ws>>

Done(c, status, detail) == [c EXCEPT !.pc = "done", !.status = status, !.detail = detail]

\* the BoardCreate of a create call
RacePayload(c) ==
    [serialNumber |-> c.serial, stage |-> c.stage, model |-> "AUTO-DETECT",
     slipNumber |-> None, targetPairs |-> NoTarget]

\* a worker takes PUT /boards/{serial_number} or POST /boards
StartCall(w, op, stage) ==
    /\ calls[w].pc = "idle"
    /\ calls' = [calls EXCEPT ![w] = [NoCall EXCEPT !.pc = "select", !.op = op,
                                                    !.serial = RaceSerial,
                                                    !.stage = stage]]
    /\ UNCHANGED <<boards, board_history, nextId>>
    /\ RaceUnchanged

\* SELECT id, stage FROM boards WHERE serial_number=?
update_select(w) ==
    /\ calls[w].pc = "select"
    /\ calls[w].op = "update_board"
    /\ calls' = [calls EXCEPT ![w] =
                    IF RowsBySerial(Db, @.serial) = {}
                    THEN Done(@, 404, "Board not found")
                    ELSE [@ EXCEPT !.pc = "validate_sequential",
                                   !.id = RowOf(Db, calls[w].serial).id,
                                   !.old_stage = RowOf(Db, calls[w].serial).stage]]
    /\ UNCHANGED <<boards, board_history, nextId>>
    /\ RaceUnchanged

\* _validate_update_sequential: its own SELECT stage
update_validate_sequential(w) ==
    /\ calls[w].pc = "validate_sequential"
    /\ LET v == IF RowsBySerial(Db, calls[w].serial) = {} THEN Ok
                ELSE _validate_update_sequential(Db, calls[w].serial, calls[w].stage)
       IN calls' = [calls EXCEPT ![w] =
                       IF v # Ok THEN Done(@, v.status, v.detail)
                       ELSE [@ EXCEPT !.pc = "validate_duplicate"]]
    /\ UNCHANGED <<boards, board_history, nextId>>
    /\ RaceUnchanged

\* _validate_no_duplicate_today: its SELECT on board_history
update_validate_duplicate(w) ==
    /\ calls[w].pc = "validate_duplicate"
    /\ LET v == _validate_no_duplicate_today(Db, calls[w].id, calls[w].stage)
       IN calls' = [calls EXCEPT ![w] =
                       IF v # Ok THEN Done(@, v.status, v.detail)
                       ELSE IF @.old_stage = @.stage THEN Done(@, 200, "ok")
                       ELSE [@ EXCEPT !.pc = "update"]]
    /\ UNCHANGED <<boards, board_history, nextId>>
    /\ RaceUnchanged

\* UPDATE boards SET stage=?, last_update=?, operator=? WHERE serial_number=?
update_write_stage(w) ==
    /\ calls[w].pc = "update"
    /\ boards' = {IF b.serial_number = calls[w].serial
                  THEN [b EXCEPT !.stage = calls[w].stage, !.last_update = now]
                  ELSE b : b \in boards}
    /\ calls' = [calls EXCEPT ![w].pc = "insert_history"]
    /\ UNCHANGED <<board_history, nextId>>
    /\ RaceUnchanged

\* INSERT INTO board_history ... "stage old -> new", then the board is read back
update_insert_history(w) ==
    /\ calls[w].pc = "insert_history"
    /\ calls[w].op = "update_board"
    /\ board_history' = Append(board_history,
                               [board_id |-> calls[w].id, stage |-> calls[w].stage,
                                timestamp |-> now, notes |-> "stage"])
    /\ calls' = [calls EXCEPT ![w] = Done(@, 200, "ok")]
    /\ UNCHANGED <<boards, nextId>>
    /\ RaceUnchanged

\* SELECT id FROM boards WHERE serial_number=?, then the checks of stage and model
create_select(w) ==
    /\ calls[w].pc = "select"
    /\ calls[w].op = "create_board"
    /\ LET r == _create_board_internal(Db, RacePayload(calls[w]))
       IN calls' = [calls EXCEPT ![w] =
                       IF r.status # 200 THEN Done(@, r.status, r.detail)
                       ELSE [@ EXCEPT !.pc = "insert_board"]]
    /\ UNCHANGED <<boards, board_history, nextId>>
    /\ RaceUnchanged

\* INSERT INTO boards: serial_number is UNIQUE
create_insert_board(w) ==
    /\ calls[w].pc = "insert_board"
    /\ IF RowsBySerial(Db, calls[w].serial) # {}
       THEN /\ calls' = [calls EXCEPT ![w] = Done(@, 500, "sqlite3.IntegrityError")]
            /\ UNCHANGED <<boards, nextId>>
       ELSE /\ boards' = boards \cup
                    {[id |-> nextId, serial_number |-> calls[w].serial,
                      model |-> infer_model(calls[w].serial), stage |-> calls[w].stage,
                      slip_number |-> None, ng_flag |-> 0, last_update |-> now]}
            /\ nextId' = nextId + 1
            /\ calls' = [calls EXCEPT ![w] = [@ EXCEPT !.pc = "insert_history",
                                                       !.id = nextId]]
    /\ UNCHANGED board_history
    /\ RaceUnchanged

\* INSERT INTO board_history ... "create", then the board is read back
create_insert_history(w) ==
    /\ calls[w].pc = "insert_history"
    /\ calls[w].op = "create_board"
    /\ board_history' = Append(board_history,
                               [board_id |-> calls[w].id, stage |-> calls[w].stage,
                                timestamp |-> now, notes |-> "create"])
    /\ calls' = [calls EXCEPT ![w] = Done(@, 200, "ok")]
    /\ UNCHANGED <<boards, nextId>>
    /\ RaceUnchanged

InitRace ==
    /\ \/ boards = {} /\ board_history = <<>>
       \/ \E st \in {"aging", "coating"} :
             /\ boards = {StatsRow(-1, RaceSerial, "AM7", st, 0)}
             /\ board_history = StatsHistory(-1, st)
    /\ slips = {}
    /\ scans = [am7 |-> {}, au8 |-> {}]
    /\ ledgerOK = TRUE
    /\ now = SlotsPerDay
    /\ nextId = 0
    /\ lastOp = Idle
    /\ events = <<>>
    /\ snap = SnapIdle
    /\ disk = DiskSound
    /\ ws = NoSockets
    /\ calls = NoCalls

NextRace ==
    \/ \E w \in Workers, st \in Stages : StartCall(w, "update_board", st)
    \/ \E w \in Workers : StartCall(w, "create_board", "aging")
    \/ \E w \in Workers : update_select(w)
    \/ \E w \in Workers : update_validate_sequential(w)
    \/ \E w \in Workers : update_validate_duplicate(w)
    \/ \E w \in Workers : update_write_stage(w)
    \/ \E w \in Workers : update_insert_history(w)
    \/ \E w \in Workers : create_select(w)
    \/ \E w \in Workers : create_insert_board(w)
    \/ \E w \in Workers : create_insert_history(w)

SpecRace == InitRace /\ [][NextRace]_vars

-----------------------------------------------------------------------------

(* The second producer of statistics_update: the assembly module computes  *)
(* the same figures from pcba.db and its own scans table and publishes     *)
(* them after an assembly scan.                                            *)

\* assembly_inventory._normalize_serial
_normalize_serial(s) == SqlRemove(SqlRemove(SqlUpper(s), " "), "-")

\* completed boards that are not NG, per model; a serial that normalizes to
\* the empty string is skipped.  The list goes into a VALUES clause that is
\* only joined under COUNT(DISTINCT ...), so it is kept as a set
_pcba_completed_serials_by_model(bs) ==
    [m \in ALLOWED_HARD_MODELS |->
        {_normalize_serial(b.serial_number) :
            b \in {x \in bs : x.stage = "completed" /\ x.ng_flag = 0 /\ x.model = m}}
          \ {<<>>}]

\* _count_used of the assembly module: the same join and count, on the
\* module's own connection and outside any try block
assembly_count_used(ledger, col, values) ==
    LET vals_norm == {_normalize_serial(v) : v \in values \ {<<>>}}
    IN IF vals_norm = {} THEN 0 ELSE LedgerCount(ledger, col, vals_norm)

\* _assembly_usage_counts_limited_to_pcba of the assembly module
assembly_usage_counts_limited_to_pcba(bs, ledger) ==
    LET serials == _pcba_completed_serials_by_model(bs)
    IN [m \in ALLOWED_HARD_MODELS |->
            assembly_count_used(ledger, ColumnOf(m), serials[m])]

_pcba_stage_totals(bs) ==
    [total |-> Cardinality(bs),
     aging |-> Cardinality({b \in bs : b.stage = "aging"}),
     coating |-> Cardinality({b \in bs : b.stage = "coating"}),
     completed |-> Cardinality({b \in bs : b.stage = "completed"})]

_pcba_by_model(bs) ==
    [m \in {b.model : b \in bs} |-> _pcba_stage_totals({b \in bs : b.model = m})]

_pcba_completed_by_model_ex_ng(bs) ==
    [m \in ALLOWED_HARD_MODELS |->
        Cardinality({b \in bs : b.stage = "completed" /\ b.ng_flag = 0 /\ b.model = m})]

\* a ledger query of _compute_pcba_statistics_payload raises
PayloadRaises(bs, ledger) ==
    \E m \in ALLOWED_HARD_MODELS :
        assembly_usage_counts_limited_to_pcba(bs, ledger)[m] = Raised

\* the payload when pcba.db opens and no query raises (efficiency, a rounded
\* float, is not represented)
_compute_pcba_statistics_payload(bs, ledger) ==
    LET t == _pcba_stage_totals(bs)
        by_model == _pcba_by_model(bs)
        completed_by_model == _pcba_completed_by_model_ex_ng(bs)
        used == assembly_usage_counts_limited_to_pcba(bs, ledger)
        am7_used == used["AM7"]
        au8_used == used["AU8"]
        avail_am7 == Max(completed_by_model["AM7"] - am7_used, 0)
        avail_au8 == Max(completed_by_model["AU8"] - au8_used, 0)
    IN [total |-> t.total, aging |-> t.aging, coating |-> t.coating,
        completed |-> t.completed, byModel |-> by_model,
        completedByModel |-> completed_by_model,
        consumedAM7 |-> am7_used, consumedAU8 |-> au8_used,
        consumedTotal |-> am7_used + au8_used,
        availableAM7 |-> avail_am7, availableAU8 |-> avail_au8,
        availableTotal |-> avail_am7 + avail_au8,
        pairsDone |-> Min(avail_am7, avail_au8)]

\* the assembly module publishes the statistics; an exception of its
\* computation leaves through the handler, one of the broadcast is logged
_broadcast_pcba_statistics ==
    /\ lastOp = Idle
    /\ IF PayloadRaises(boards, Ledger)
       THEN /\ lastOp' = [NoOp("_broadcast_pcba_statistics") EXCEPT
                             !.status = 500, !.detail = "sqlite3.Error"]
            /\ events' = <<>>
            /\ ws' = ws
       ELSE /\ lastOp' = [NoOp("_broadcast_pcba_statistics") EXCEPT
                             !.status = 200, !.detail = "ok"]
            /\ events' = <<[type |-> "statistics_update",
                            statistics |-> _compute_pcba_statistics_payload(boards, Ledger)]>>
            /\ ws' = [Broadcasts(ws, events') EXCEPT !.raised = FALSE]
    /\ UNCHANGED <<boards, board_history, slips, scans, ledgerOK, calls, now, nextId,
                   snap, disk>>

\* The floor: two AM7 boards and one AU8 board; the first and the third may
\* carry a serial made of dashes and blanks only, entered with its model.
SN_dash == <<"-">>
SN_blank == <<" ", "-">>

PayloadAm7Pool == {<<"A", "M", "1">>, <<"-">>}
PayloadAu8Pool == {<<"A", "U", "8", "A">>, <<"-", "-">>}

InitPayload ==
    /\ \E s0 \in {SN_am1, SN_dash}, s2 \in {SN_AU8a, SN_blank},
          st1 \in {"coating", "completed"}, ng0 \in 0..1 :
          /\ boards = {StatsRow(0, s0, "AM7", "completed", ng0),
                       StatsRow(1, SN_AM_1, "AM7", st1, 0),
                       StatsRow(2, s2, "AU8", "completed", 0)}
          /\ board_history = StatsHistory(0, "completed") \o StatsHistory(1, st1)
                                \o StatsHistory(2, "completed")
    /\ slips = {}
    /\ ledgerOK \in BOOLEAN
    /\ scans \in [am7 : SUBSET PayloadAm7Pool, au8 : SUBSET PayloadAu8Pool]
    /\ ~ledgerOK => scans = [am7 |-> {}, au8 |-> {}]
    /\ now = 0
    /\ nextId = 3
    /\ lastOp = Idle
    /\ events = <<>>
    /\ snap = SnapIdle
    /\ disk = DiskSound
    /\ ws = NoSockets
    /\ calls = NoCalls

NextPayload ==
    \/ \E op \in StatsOps : _get_statistics_totals(op)
    \/ _get_statistics_by_model
    \/ _get_statistics_completed_by_model
    \/ \E mdl \in ALLOWED_HARD_MODELS : _fetch_completed_serials_step(mdl)
    \/ _get_statistics_return
    \/ StatsRespond
    \/ _broadcast_pcba_statistics
    \/ Respond

SpecPayload == InitPayload /\ [][NextPayload]_vars

-----------------------------------------------------------------------------

(* The error taxonomy, by HTTP status *)

NotFound(o) == o.status = 404
Conflict(o) == o.status = 409
InvalidTransition(o) == o.status = 400
Succeeded(o) == o.status \in {200, 201}

StoreUnchanged == boards' = boards /\ board_history' = board_history /\ slips' = slips

\* lastOp' answers a request op for the serial of a row that exists now
Answers(ops, b) ==
    lastOp = Idle /\ lastOp'.op \in ops /\ lastOp'.serial = b.serial_number

\* lastOp' answers a request op for a serial no row has now
AnswersUnknown(ops) ==
    /\ lastOp = Idle
    /\ lastOp'.op \in ops
    /\ RowsBySerial(Db, lastOp'.serial) = {}

\* the unit has a StageEvent at this stage on the current Los Angeles day
HasEventToday(board_id, stage) ==
    \E i \in 1..Len(board_history) :
        /\ board_history[i].board_id = board_id
        /\ board_history[i].stage = stage
        /\ parse_to_la_date_key(board_history[i].timestamp) = today_la_key

-----------------------------------------------------------------------------
(* C1 *)

LegalAdvance(a, b) ==
    (a = "aging" /\ b = "coating") \/ (a = "coating" /\ b = "completed")

\* C1: a unit's stage changes only from aging to coating or from coating to
\* completed, unless the change is made by admin_edit_board called by an admin.
C1_StageOnlyAdvances ==
    [][\A b \in boards : \A c \in boards' :
          (b.id = c.id /\ b.stage # c.stage) =>
              \/ LegalAdvance(b.stage, c.stage)
              \/ (lastOp'.op = "admin_edit_board" /\ lastOp'.role = "admin")]_vars

\* a scan has taken a unit through aging, coating and completed
C1_Witness ==
    /\ lastOp.op \in {"update_board", "scan_upsert"}
    /\ lastOp.status = 200
    /\ \E v \in lastOp.ret :
          /\ v.row.stage = "completed"
          /\ \E i, j \in 1..Len(v.history) :
                /\ i < j
                /\ v.history[i].stage = "coating" /\ v.history[i].notes = "stage"
                /\ v.history[j].stage = "completed" /\ v.history[j].notes = "stage"

-----------------------------------------------------------------------------
(* C2 *)

\* C2: update_board to the stage the unit is in (aging or coating) succeeds,
\* returns the unchanged unit and appends no history row.
C2_SameStageAdvanceSucceeds ==
    [][\A b \in boards :
          (Answers({"update_board"}, b) /\ lastOp'.stage = b.stage
             /\ b.stage \in {"aging", "coating"}) =>
              /\ Succeeded(lastOp')
              /\ lastOp'.ret = _get_board_by_serial(Db, b.serial_number)
              /\ StoreUnchanged]_vars

-----------------------------------------------------------------------------
(* C3 *)

\* C3: when the unit has a StageEvent at stage S dated today (Los Angeles), a
\* scan of the serial for stage S is rejected with Conflict and appends no
\* history row.
C3_SameDayRescanConflict ==
    [][\A b \in boards :
          (Answers({"update_board", "scan_upsert"}, b)
             /\ HasEventToday(b.id, lastOp'.stage)) =>
              /\ Conflict(lastOp')
              /\ board_history' = board_history]_vars

-----------------------------------------------------------------------------
(* C4 *)

\* C4: an advance of a completed unit, by update_board or by scan_upsert, is
\* rejected with InvalidTransition whatever the requested stage, and the unit
\* stays completed; update_board leaves the rows and the history as they
\* were, and the only history row a rejected scan_upsert leaves is the
\* "attach slip" row it writes before it advances.
C4_CompletedIsTerminal ==
    [][\A b \in boards :
          (Answers({"update_board", "scan_upsert"}, b) /\ b.stage = "completed") =>
              /\ InvalidTransition(lastOp')
              /\ \E c \in boards' : c.id = b.id /\ c.stage = "completed"
              /\ lastOp'.op = "update_board" =>
                    (boards' = boards /\ board_history' = board_history)
              /\ \A i \in 1..Len(board_history') :
                    i > Len(board_history) => board_history'[i].notes = "attach slip"]_vars

\* an advance of a completed unit has been refused
C4_Witness ==
    /\ lastOp.op = "update_board"
    /\ lastOp.status = 400
    /\ lastOp.detail = "Board already Completed"
    /\ \E b \in boards : b.serial_number = lastOp.serial /\ b.stage = "completed"

-----------------------------------------------------------------------------
(* C5 *)

Resolvable(serial, model) ==
    model \in ALLOWED_HARD_MODELS \/ infer_model(serial) \in ALLOWED_HARD_MODELS

\* C5: create_board or scan_upsert for a serial that does not exist fails with
\* InvalidTransition and creates no unit and no history row when the requested
\* stage is coating or completed; with aging and a resolvable kind it creates
\* the unit at aging with exactly one StageEvent.
C5_CreatedOnlyAtAging ==
    [][AnswersUnknown({"create_board", "scan_upsert"}) =>
          /\ lastOp'.stage # "aging" =>
                /\ InvalidTransition(lastOp')
                /\ boards' = boards
                /\ board_history' = board_history
          /\ (lastOp'.stage = "aging" /\ Resolvable(lastOp'.serial, lastOp'.model)) =>
                /\ Succeeded(lastOp')
                /\ \E c \in boards' :
                      /\ boards' = boards \cup {c}
                      /\ c.serial_number = lastOp'.serial
                      /\ c.stage = "aging"
                      /\ Len(board_history') = Len(board_history) + 1
                      /\ SubSeq(board_history', 1, Len(board_history)) = board_history
                      /\ board_history'[Len(board_history')].board_id = c.id
                      /\ board_history'[Len(board_history')].stage = "aging"]_vars

\* a unit has just been created at aging by a scan, its kind inferred
C5_Witness ==
    /\ lastOp.op = "scan_upsert"
    /\ lastOp.status = 200
    /\ lastOp.model = "AUTO-DETECT"
    /\ \E v \in lastOp.ret :
          v.row.stage = "aging" /\ Len(v.history) = 1 /\ v.history[1].notes = "create"

-----------------------------------------------------------------------------
(* C6 *)

\* C6: create_board for a serial that exists fails with Conflict and leaves
\* the unit, its history and the slips as they were.
C6_DuplicateCreateConflict ==
    [][\A b \in boards :
          Answers({"create_board"}, b) => (Conflict(lastOp') /\ StoreUnchanged)]_vars

-----------------------------------------------------------------------------
(* C7 *)

ByUnknownSerial ==
    AnswersUnknown({"update_board", "mark_ng", "admin_edit_board", "delete_board",
                    "get_board"})

\* C7 as stated: each of the five operations fails with NotFound on a serial
\* that does not exist, writes nothing and publishes nothing.
C7_UnknownSerialNotFound ==
    [][ByUnknownSerial =>
          (NotFound(lastOp') /\ StoreUnchanged /\ events' = <<>>)]_vars

RoleChecked(o) == o.op \in {"admin_edit_board", "delete_board"}

\* C7 (amended): on a serial that does not exist the five operations write
\* nothing and publish nothing; they fail with NotFound, except that
\* admin_edit_board and delete_board called by a principal who is not an admin
\* fail with 403 before the serial is looked up.
C7_UnknownSerialRejected ==
    [][ByUnknownSerial =>
          /\ StoreUnchanged
          /\ events' = <<>>
          /\ IF RoleChecked(lastOp') /\ lastOp'.role # "admin"
             THEN lastOp'.status = 403
             ELSE NotFound(lastOp')]_vars

\* a defect flag was asked for a serial that no unit has, and refused
C7_Witness ==
    /\ lastOp.op = "mark_ng"
    /\ lastOp.status = 404
    /\ RowsBySerial(Db, lastOp.serial) = {}
    /\ events = <<>>

-----------------------------------------------------------------------------
(* What a finished statistics computation returned, by kind *)

SnapDone == snap.pc = "done"
OfInventory == snap.op = "get_inventory_summary"

SnapCompleted(k) ==
    IF OfInventory
    THEN (IF k = "AM7" THEN snap.ret.completedAM7 ELSE snap.ret.completedAU8)
    ELSE snap.ret.completedByModel[k]

SnapUsed(k) ==
    IF OfInventory
    THEN (IF k = "AM7" THEN snap.ret.usedAM7 ELSE snap.ret.usedAU8)
    ELSE (IF k = "AM7" THEN snap.ret.consumedAM7 ELSE snap.ret.consumedAU8)

SnapAvail(k) == IF k = "AM7" THEN snap.ret.availableAM7 ELSE snap.ret.availableAU8

SnapPairs == IF OfInventory THEN snap.ret.pairsAvailable ELSE snap.ret.pairsDone

-----------------------------------------------------------------------------
(* C8 *)

\* C8: in every snapshot, available of a kind is completedGood minus consumed
\* when that is positive and zero otherwise, so it is never negative, also
\* when the units change between the reads of the snapshot.
C8_AvailableNeverNegative ==
    SnapDone =>
        \A k \in ALLOWED_HARD_MODELS :
            /\ SnapAvail(k) >= 0
            /\ SnapCompleted(k) >= SnapUsed(k) =>
                  SnapAvail(k) = SnapCompleted(k) - SnapUsed(k)
            /\ SnapCompleted(k) < SnapUsed(k) => SnapAvail(k) = 0

\* a snapshot that counted more consumed serials than completed good units: a
\* defect flag was cleared between its two reads
C8_Witness ==
    /\ SnapDone
    /\ \E k \in ALLOWED_HARD_MODELS :
          SnapUsed(k) > SnapCompleted(k) /\ SnapAvail(k) = 0

-----------------------------------------------------------------------------
(* C9 *)

GoodCompleted(bs, k) ==
    {b \in bs : b.stage = "completed" /\ b.ng_flag = 0 /\ b.model = k}

\* a ledger entry that names no serial
Placeholder(x) == x = NullSerial \/ SqlTrim(SqlUpper(x)) = NA

\* the normalized serials of the kind's completed good units that some entry
\* of the kind's ledger column names
ConsumedSerials(bs, k) ==
    {n \in {_normalize_serial_str(b.serial_number) : b \in GoodCompleted(bs, k)} :
        \E x \in scans[ColumnOf(k)] : ~Placeholder(x) /\ SqlNorm(x) = n}

\* C9: with a readable ledger, consumed of a kind is the number of distinct
\* normalized serials of that kind's completed good units that appear in that
\* kind's ledger column: spellings of one serial count once, 'N/A' entries and
\* the serials of units that are not completed good count zero.
C9_ConsumedCountsDistinctSerials ==
    ledgerOK =>
        \A k \in ALLOWED_HARD_MODELS :
            /\ _assembly_usage_counts_limited_to_pcba(boards, Ledger)[k]
                  = Cardinality(ConsumedSerials(boards, k))
            /\ (SnapDone /\ snap.serials = _fetch_completed_serials_by_model(boards)) =>
                  SnapUsed(k) = Cardinality(ConsumedSerials(boards, k))

\* a snapshot of a floor whose two AM7 units share one normalized serial that
\* the ledger spells in two ways, and whose AU8 unit is named by an 'N/A' entry
C9_Witness ==
    /\ SnapDone
    /\ ledgerOK
    /\ snap.serials = _fetch_completed_serials_by_model(boards)
    /\ Cardinality(GoodCompleted(boards, "AM7")) = 2
    /\ Cardinality(scans.am7) = 2
    /\ SnapUsed("AM7") = 1
    /\ GoodCompleted(boards, "AU8") # {}
    /\ scans.au8 = {<<"n", "/", "a", " ">>, <<"A", "M", "1">>}
    /\ SnapUsed("AU8") = 0

-----------------------------------------------------------------------------
(* C10 *)

Other(k) == IF k = "AM7" THEN "AU8" ELSE "AM7"

AvailableOf(stats, k) == IF k = "AM7" THEN stats.availableAM7 ELSE stats.availableAU8

\* this step adds completed good units of kind k and changes nothing else of
\* what the statistics read
AddsGoodCompleted(k) ==
    /\ GoodCompleted(boards, k) # GoodCompleted(boards', k)
    /\ {b.id : b \in GoodCompleted(boards, k)} \subseteq
          {b.id : b \in GoodCompleted(boards', k)}
    /\ GoodCompleted(boards, Other(k)) = GoodCompleted(boards', Other(k))
    /\ scans' = scans /\ ledgerOK' = ledgerOK

\* C10: pairsAvailable is the smaller of the two kinds' available counts;
\* two good completed units of one kind and one of the other, nothing
\* consumed, give 1; and a step that adds good completed units of the kind
\* that is already at least as plentiful leaves it as it was.
C10_PairsAreTheMinimum ==
    /\ [](SnapDone =>
            /\ \A k \in ALLOWED_HARD_MODELS : SnapPairs <= SnapAvail(k)
            /\ \E k \in ALLOWED_HARD_MODELS : SnapPairs = SnapAvail(k)
            /\ \A k \in ALLOWED_HARD_MODELS :
                  (/\ SnapCompleted(k) = 2 /\ SnapCompleted(Other(k)) = 1
                   /\ SnapUsed(k) = 0 /\ SnapUsed(Other(k)) = 0) => SnapPairs = 1)
    /\ [][\A k \in ALLOWED_HARD_MODELS :
            LET before == _get_statistics(boards, Ledger)
                after == _get_statistics(boards', [ok |-> ledgerOK', scans |-> scans'])
            IN (AddsGoodCompleted(k)
                  /\ AvailableOf(before, k) >= AvailableOf(before, Other(k))) =>
                     /\ after.pairsDone = before.pairsDone
                     /\ InventorySummary(after).pairsAvailable
                           = InventorySummary(before).pairsAvailable]_vars

\* an inventory summary of two good completed AM7, one good completed AU8 and
\* nothing consumed, while a change of a defect flag is being answered
C10_Witness ==
    /\ SnapDone
    /\ OfInventory
    /\ snap.ret.completedAM7 = 2
    /\ snap.ret.completedAU8 = 1
    /\ snap.ret.usedTotal = 0
    /\ snap.ret.pairsAvailable = 1
    /\ lastOp.op = "mark_ng"
    /\ lastOp.status = 200

-----------------------------------------------------------------------------
(* C11 *)

\* the snapshot a caller gets from the store as this step leaves it
NextSnapshot == _get_statistics(boards', [ok |-> ledgerOK', scans |-> scans'])

\* this step answers mark_ng with ng = true for the completed unit b
MarksDefective(b) ==
    /\ Answers({"mark_ng"}, b)
    /\ b.stage = "completed"
    /\ Succeeded(lastOp')
    /\ \E v \in lastOp'.ret : v.row.ng_flag = 1

\* C11: after mark_ng(serial, ng = true) on a completed unit, the next snapshot
\* counts in completedGood of its kind only the other good units (so that
\* available is at most their number), the unit is still at completed, its
\* history is as before, and the raw completed counts, overall and of its
\* kind, still include it.
C11_DefectLeavesCompletedGood ==
    [][\A b \in boards :
          MarksDefective(b) =>
              LET others == {x \in boards : /\ x.id # b.id
                                            /\ x.stage = "completed"
                                            /\ x.ng_flag = 0
                                            /\ x.model = b.model}
                  raw == {x \in boards : x.stage = "completed"}
              IN /\ NextSnapshot.completedByModel[b.model] = Cardinality(others)
                 /\ AvailableOf(NextSnapshot, b.model) <= Cardinality(others)
                 /\ \E c \in boards' : c.id = b.id /\ c.stage = "completed"
                 /\ board_history' = board_history
                 /\ b \in raw
                 /\ NextSnapshot.completed = Cardinality(raw)
                 /\ NextSnapshot.byModel[b.model].completed
                       = Cardinality({x \in raw : x.model = b.model})
                 /\ events'[2].statistics = NextSnapshot]_vars

\* a good completed unit has just been marked defective while the other unit
\* of its kind is good: the published snapshot counts one good unit of the
\* kind and three completed units
C11_Witness ==
    /\ lastOp.op = "mark_ng"
    /\ lastOp.status = 200
    /\ \E v \in lastOp.ret : v.row.ng_flag = 1 /\ v.row.stage = "completed"
    /\ Len(events) = 2
    /\ events[2].statistics.completedByModel["AM7"] = 1
    /\ events[2].statistics.byModel["AM7"].completed = 2
    /\ events[2].statistics.completed = 3

-----------------------------------------------------------------------------
(* C12 *)

\* C12: when assembly.db is absent, unreadable or has no table scans, a
\* statistics computation still returns its result, with consumed = 0 and
\* available = completedGood for each kind.
C12_LedgerFailureCountsZero ==
    ~ledgerOK =>
        /\ snap.pc = "count" => ENABLED _get_statistics_return
        /\ SnapDone =>
              /\ "availableAM7" \in DOMAIN snap.ret
              /\ \A k \in ALLOWED_HARD_MODELS :
                    SnapUsed(k) = 0 /\ SnapAvail(k) = SnapCompleted(k)

\* a snapshot taken without a readable ledger that had completed good units
\* of both kinds to look up in it
C12_Witness ==
    /\ SnapDone
    /\ ~ledgerOK
    /\ \A k \in ALLOWED_HARD_MODELS :
          snap.serials[k] # {} /\ SnapCompleted(k) > 0 /\ SnapAvail(k) = SnapCompleted(k)

-----------------------------------------------------------------------------
(* C13 *)

\* C13: delete_slip succeeds and leaves no slip of that number when no board
\* names it, touching nothing else; when a board names it, it fails with
\* Conflict and boards, history and slips are as before.
C13_DeleteSlipOnlyUnreferenced ==
    [][(lastOp = Idle /\ lastOp'.op = "delete_slip") =>
          LET sl == lastOp'.slip
          IN IF {b \in boards : b.slip_number = sl} = {}
             THEN /\ Succeeded(lastOp')
                  /\ slips' = {s \in slips : s.slip_number # sl}
                  /\ boards' = boards
                  /\ board_history' = board_history
             ELSE /\ Conflict(lastOp')
                  /\ StoreUnchanged]_vars

\* a slip that a board names has been refused deletion and is still there
C13_Witness ==
    /\ lastOp.op = "delete_slip"
    /\ lastOp.status = 409
    /\ \E s \in slips : s.slip_number = lastOp.slip
    /\ \E b \in boards : b.slip_number = lastOp.slip

-----------------------------------------------------------------------------
(* C14 *)

\* the boards of a slip at a stage that are not defective, of one model
GoodOfSlip(sl, st, m) ==
    {b \in boards : /\ b.slip_number = sl
                    /\ b.stage = st
                    /\ b.model = m
                    /\ b.ng_flag # 1}

PairsOfSlip(sl, st) ==
    LET am7 == Cardinality(GoodOfSlip(sl, st, "AM7"))
        au8 == Cardinality(GoodOfSlip(sl, st, "AU8"))
    IN IF am7 <= au8 THEN am7 ELSE au8

TargetOfSlip(sl) ==
    IF \E s \in slips : s.slip_number = sl
    THEN (CHOOSE s \in slips : s.slip_number = sl).target_pairs
    ELSE 0

\* C14: the status of a slip gives, per stage, the pairs as the smaller of
\* its non-defective AM7 and AU8 boards at that stage; wipPairs is
\* agingPairs + coatingPairs; remainingPairs is target - completedPairs and
\* remainingPairsAfterWIP is target - min(target, completedPairs + wipPairs),
\* neither below 0; the board counts per stage include the defective boards.
C14_SlipStatusFigures ==
    lastOp.op = "slip_status" =>
        /\ Succeeded(lastOp)
        /\ \A r \in lastOp.ret :
              LET sl == lastOp.slip
                  t == TargetOfSlip(sl)
                  owed == t - r.completedPairs
                  covered == IF t <= r.completedPairs + r.wipPairs
                             THEN t ELSE r.completedPairs + r.wipPairs
              IN /\ r.slipNumber = sl
                 /\ r.targetPairs = t
                 /\ r.agingPairs = PairsOfSlip(sl, "aging")
                 /\ r.coatingPairs = PairsOfSlip(sl, "coating")
                 /\ r.completedPairs = PairsOfSlip(sl, "completed")
                 /\ r.wipPairs = r.agingPairs + r.coatingPairs
                 /\ r.remainingPairs = (IF owed > 0 THEN owed ELSE 0)
                 /\ r.remainingPairsAfterWIP = (IF t - covered > 0 THEN t - covered ELSE 0)
                 /\ r.aging = Cardinality({b \in boards : b.slip_number = sl
                                                          /\ b.stage = "aging"})
                 /\ r.coating = Cardinality({b \in boards : b.slip_number = sl
                                                            /\ b.stage = "coating"})
                 /\ r.completed = Cardinality({b \in boards : b.slip_number = sl
                                                              /\ b.stage = "completed"})
        /\ lastOp.ret # {}

\* a slip with a defective completed board: the board is counted, its pair
\* is not, and the target is still owed in part
C14_Witness ==
    /\ lastOp.op = "slip_status"
    /\ \E r \in lastOp.ret :
          /\ r.completed = 4
          /\ r.completedPairs = 1
          /\ r.targetPairs = 3
          /\ r.remainingPairs = 2
          /\ \E b \in boards : b.slip_number = lastOp.slip /\ b.ng_flag = 1
                                  /\ b.stage = "completed"

-----------------------------------------------------------------------------
(* C15 *)

StageIndex(st) == CHOOSE i \in 1..Len(FLOW) : FLOW[i] = st

\* the unit carries a slip and has only been created and advanced, every
\* scan of it on the current Los Angeles day
InFlowToday(b) ==
    LET h == HistoryOf(Db, b.id)
    IN /\ b.slip_number # None
       /\ Len(h) = StageIndex(b.stage)
       /\ \A i \in 1..Len(h) :
             /\ h[i].stage = FLOW[i]
             /\ parse_to_la_date_key(h[i].timestamp) = today_la_key

\* C15: within one Los Angeles day a unit is created at aging with a slip and
\* a target, advanced to coating, advanced to completed and marked defective,
\* each request accepted; then the statistics count it among the completed
\* boards of its model (1) and not among the good ones (0), and its slip has
\* no completed pair.
C15_FullFlowInOneDay ==
    /\ [](\A b \in boards :
             (InFlowToday(b) /\ b.stage = "completed" /\ b.ng_flag = 1
                 /\ boards = {b}) =>
                 /\ _get_statistics(boards, Ledger).completed = 1
                 /\ _get_statistics(boards, Ledger).byModel[b.model].completed = 1
                 /\ _get_statistics(boards, Ledger).completedByModel[b.model] = 0
                 /\ _slip_status(Db, b.slip_number).completed = 1
                 /\ _slip_status(Db, b.slip_number).completedPairs = 0)
    /\ [][/\ (AnswersUnknown({"create_board", "scan_upsert"})
                 /\ lastOp'.stage = "aging"
                 /\ Resolvable(lastOp'.serial, lastOp'.model)) =>
                /\ Succeeded(lastOp')
                /\ \E c \in boards' \ boards :
                      /\ c.stage = "aging"
                      /\ c.slip_number # None =>
                            (InFlowToday(c)' /\ \E s \in slips' :
                                                    s.slip_number = c.slip_number)
          /\ \A b \in boards :
                (InFlowToday(b) /\ Answers({"update_board", "scan_upsert"}, b)
                    /\ b.stage # "completed"
                    /\ lastOp'.stage = next_stage_of(b.stage)) =>
                    /\ Succeeded(lastOp')
                    /\ \E c \in boards' :
                          c.id = b.id /\ c.stage = lastOp'.stage /\ InFlowToday(c)'
          /\ \A b \in boards :
                (InFlowToday(b) /\ Answers({"mark_ng"}, b)) =>
                    /\ Succeeded(lastOp')
                    /\ \E c \in boards' :
                          c.id = b.id /\ c.stage = b.stage /\ InFlowToday(c)']_vars

\* the unit went from creation to completed and was marked defective on one day
C15_Witness ==
    /\ lastOp.op = "mark_ng"
    /\ lastOp.status = 200
    /\ \E v \in lastOp.ret :
          /\ v.row.ng_flag = 1
          /\ v.row.stage = "completed"
          /\ v.row.slip_number = "P1"
          /\ v.row \in boards
          /\ InFlowToday(v.row)
          /\ Len(v.history) = 3
          /\ \E s \in slips : s.slip_number = "P1" /\ s.target_pairs = MaxTarget
          /\ _get_statistics(boards, Ledger).byModel[v.row.model].completed = 1
          /\ _get_statistics(boards, Ledger).completedByModel[v.row.model] = 0
          /\ _slip_status(Db, "P1").completedPairs = 0

-----------------------------------------------------------------------------
(* C16 *)

StoreCorrupt(o) == o.status = 500 /\ o.detail = "sqlite3.DatabaseError"

-----------------------------------------------------------------------------
(* C17 *)

\* C17: whatever open_conn, pcba_db_health and pcba_db_repair do, a file that
\* was moved aside stays, under its name and with its content: the set of
\* files moved aside only grows.
C17_QuarantineOnlyGrows ==
    [][\A f \in disk.files : f \in disk'.files]_vars

-----------------------------------------------------------------------------
(* C18 *)

\* the sockets a broadcast that starts now sends to, and those whose send fails
Receiving == {s \in SocketIds : /\ InList(ws.active, s)
                                /\ ws.client_state[s] = "CONNECTED"
                                /\ s \notin ws.broken}

Failing == {s \in SocketIds : /\ InList(ws.active, s)
                              /\ ws.client_state[s] = "CONNECTED"
                              /\ s \in ws.broken}

\* C18: when a send to a subscriber fails while a handler publishes after
\* its write, the handler still answers with success, the board it returns
\* is the one in the store (after a delete, no row of that serial), every
\* other connected subscriber is sent every message in order, and the
\* failing socket is removed.
C18_SendFailureSwallowed ==
    [][(lastOp = Idle /\ lastOp' # Idle /\ Failing # {}) =>
          /\ lastOp'.status # 500
          /\ ~ws'.raised
          /\ events' # <<>> =>
                /\ Succeeded(lastOp')
                /\ \A v \in lastOp'.ret : v.row \in boards'
                /\ lastOp'.op = "delete_board" =>
                      \A b \in boards' : b.serial_number # lastOp'.serial
                /\ \A s \in Receiving : ws'.inbox[s] = events'
                /\ \A s \in Failing : /\ s \in ws'.dropped
                                      /\ ~InList(ws'.active, s)
                                      /\ ws'.inbox[s] = <<>>]_vars

\* a send failed during the last request, which succeeded, and another
\* subscriber was sent both of its messages
C18_Witness ==
    /\ Succeeded(lastOp)
    /\ Len(events) = 2
    /\ ws.dropped # {}
    /\ \E s \in SocketIds : s \notin ws.dropped /\ ws.inbox[s] = events
    /\ \E v \in lastOp.ret : v.row \in boards

-----------------------------------------------------------------------------
(* C19 *)

Changing == {"create_board", "scan_upsert", "update_board", "mark_ng", "admin_edit_board"}

\* C19: a create_board, scan_upsert, update_board, mark_ng or
\* admin_edit_board that succeeds publishes a board_update carrying the board
\* as it is in the store afterwards, then a statistics_update computed from
\* the store after the write; a delete_board that succeeds publishes
\* board_deleted with the serial, then such a statistics_update; a request
\* that is rejected publishes nothing.
C19_EventsFollowMutations ==
    [][(lastOp = Idle /\ lastOp' # Idle) =>
          /\ (lastOp'.op \in Changing /\ Succeeded(lastOp')) =>
                /\ Len(events') = 2
                /\ events'[1].type = "board_update"
                /\ events'[1].board = lastOp'.ret
                /\ events'[1].board # {}
                /\ \A v \in events'[1].board :
                      /\ v.row \in boards'
                      /\ \A i \in 1..Len(v.history) :
                            \E j \in 1..Len(board_history') :
                                board_history'[j] = v.history[i]
                /\ events'[2].type = "statistics_update"
                /\ events'[2].statistics = NextSnapshot
          /\ (lastOp'.op = "delete_board" /\ Succeeded(lastOp')) =>
                /\ Len(events') = 2
                /\ events'[1] = [type |-> "board_deleted",
                                 serialNumber |-> lastOp'.serial]
                /\ events'[2].type = "statistics_update"
                /\ events'[2].statistics = NextSnapshot
          /\ ~Succeeded(lastOp') => events' = <<>>]_vars

\* a scan has advanced a board to coating and published the board, then
\* statistics that count it at coating
C19_Witness ==
    /\ lastOp.op = "scan_upsert"
    /\ Succeeded(lastOp)
    /\ Len(events) = 2
    /\ events[1].board = lastOp.ret
    /\ \E v \in lastOp.ret : v.row.stage = "coating" /\ v.row \in boards
    /\ events[2].statistics.coating = 1
    /\ events[2].statistics.aging = 0

-----------------------------------------------------------------------------
(* C20 *)

\* C20: a scan_upsert that is rejected (stage out of order or board
\* completed, same-day duplicate, creation at a stage other than aging, model
\* not resolved) leaves boards, board_history and slips exactly as they were.
C20_RejectedScanChangesNothing ==
    [][(lastOp = Idle /\ lastOp'.op = "scan_upsert" /\ ~Succeeded(lastOp')) =>
          StoreUnchanged]_vars

-----------------------------------------------------------------------------
(* C21 *)

\* C21: an admin_edit_board whose newSerialNumber is the serial of another
\* board fails, and boards, board_history and slips are exactly as before:
\* nothing else of the patch is applied.
C21_RenameCollisionChangesNothing ==
    [][(/\ lastOp = Idle
        /\ lastOp'.op = "admin_edit_board"
        /\ lastOp'.detail = "Serial already exists") =>
          (~Succeeded(lastOp') /\ StoreUnchanged)]_vars

-----------------------------------------------------------------------------
(* C22 *)

BothDone(op) == \A w \in Workers : calls[w].pc = "done" /\ calls[w].op = op

Accepted == {w \in Workers : calls[w].status = 200}

\* the history rows that the calls wrote for a stage: the rows the store
\* began with are a day older
RowsWritten(stage, notes) ==
    {i \in 1..Len(board_history) : /\ board_history[i].stage = stage
                                   /\ board_history[i].notes = notes
                                   /\ board_history[i].timestamp = now}

\* C22: of two update_board calls for the same serial and the same stage
\* that interleave statement by statement at most one is accepted and one
\* history row is written for the stage if one is accepted, none otherwise;
\* two create_board calls for one serial leave one board with one "create" row.
C22_SameSerialSerialized ==
    /\ (BothDone("update_board") /\ calls[1].stage = calls[2].stage) =>
          /\ Cardinality(Accepted) <= 1
          /\ Cardinality(RowsWritten(calls[1].stage, "stage")) = Cardinality(Accepted)
    /\ BothDone("create_board") =>
          /\ Cardinality(RowsBySerial(Db, RaceSerial)) = 1
          /\ \A b \in RowsBySerial(Db, RaceSerial) :
                Cardinality({i \in 1..Len(board_history) :
                                /\ board_history[i].board_id = b.id
                                /\ board_history[i].notes = "create"}) = 1

-----------------------------------------------------------------------------
(* C23 *)

IsPrefix(s, t) == Len(s) <= Len(t) /\ SubSeq(t, 1, Len(s)) = s

\* C23: every history row belongs to a board that exists; a delete_board
\* that succeeds removes the board and all and only the history rows of that
\* board; every other request leaves the rows that exist as they are and
\* where they are, and at most appends to them.
C23_HistoryAppendOnly ==
    /\ [](\A i \in 1..Len(board_history) :
             \E b \in boards : b.id = board_history[i].board_id)
    /\ [][IF lastOp = Idle /\ lastOp'.op = "delete_board" /\ Succeeded(lastOp')
          THEN \E b \in boards :
                  /\ b.serial_number = lastOp'.serial
                  /\ boards' = boards \ {b}
                  /\ LET Others(h) == h.board_id # b.id
                     IN board_history' = SelectSeq(board_history, Others)
          ELSE IsPrefix(board_history, board_history')]_vars

\* a board has been deleted and the other board still has its history
C23_Witness ==
    /\ lastOp.op = "delete_board"
    /\ lastOp.status = 200
    /\ \E b \in boards : /\ b.serial_number # lastOp.serial
                         /\ Len(HistoryOf(Db, b.id)) >= 2
                         /\ Len(HistoryOf(Db, b.id)) = Len(board_history)

-----------------------------------------------------------------------------
(* C24 *)

\* the request answered in this step was an admin_edit_board of an admin for b
AdminEdits(b) == Answers({"admin_edit_board"}, b) /\ lastOp'.role = "admin"

LastRow(h) == h[Len(h)]

\* the step appends one row to board_history and changes no other
AppendsOne == /\ Len(board_history') = Len(board_history) + 1
              /\ IsPrefix(board_history, board_history')

StageAfter(b) == (CHOOSE c \in boards' : c.id = b.id).stage

\* an ordinary advance never appends a row noted "admin edit"
AdvancesNeverNoteAdminEdit ==
    (lastOp = Idle /\ lastOp'.op \in {"create_board", "update_board", "scan_upsert"}) =>
        \A i \in 1..Len(board_history') :
            (i > Len(board_history) => board_history'[i].notes # "admin edit")

\* C24 as stated: an admin_edit_board that changes the stage of the board
\* appends exactly one history row, with the new stage and the note
\* "admin edit"; one that leaves the stage appends none; create_board,
\* update_board and scan_upsert never append a row with that note.
C24_AdminEditNoted ==
    [][/\ \A b \in boards :
             AdminEdits(b) =>
                IF StageAfter(b) # b.stage
                THEN /\ AppendsOne
                     /\ LastRow(board_history').board_id = b.id
                     /\ LastRow(board_history').stage = StageAfter(b)
                     /\ LastRow(board_history').notes = "admin edit"
                ELSE board_history' = board_history
       /\ AdvancesNeverNoteAdminEdit]_vars

\* C24, amended: the note of the appended row is the note of the patch when
\* the patch carries one, and "admin edit" otherwise.
C24_AdminEditNotedOrPatchNote ==
    [][/\ \A b \in boards :
             AdminEdits(b) =>
                IF StageAfter(b) # b.stage
                THEN /\ AppendsOne
                     /\ LastRow(board_history').board_id = b.id
                     /\ LastRow(board_history').stage = StageAfter(b)
                     /\ LastRow(board_history').notes =
                            (IF Truthy(lastOp'.note) THEN lastOp'.note ELSE "admin edit")
                ELSE board_history' = board_history
       /\ AdvancesNeverNoteAdminEdit]_vars

\* an admin edit with a note of its own has moved a board to another stage
C24_Witness ==
    /\ lastOp.op = "admin_edit_board"
    /\ lastOp.status = 200
    /\ lastOp.note = "rework"
    /\ \E v \in lastOp.ret :
          /\ Len(v.history) >= 2
          /\ LastRow(v.history).notes = "rework"
          /\ LastRow(v.history).stage = v.row.stage
          /\ v.history[Len(v.history) - 1].stage # v.row.stage

-----------------------------------------------------------------------------
(* C25 *)

\* C25: no two boards have serials that are equal once upper-cased and
\* stripped of spaces and hyphens.
C25_NormalizedSerialsUnique ==
    \A b, c \in boards :
        _normalize_serial_str(b.serial_number) = _normalize_serial_str(c.serial_number)
            => b = c

-----------------------------------------------------------------------------
(* C26 *)

\* C26: every board whose slip_number is set names a slip that is in slips.
C26_SlipReferencesExist ==
    \A b \in boards :
        b.slip_number # None => \E s \in slips : s.slip_number = b.slip_number

-----------------------------------------------------------------------------
(* C27 *)

\* C27: between requests and after each of them, accepted or rejected, every
\* board has a history row and its stage is the stage of the row appended
\* last for it.
C27_StageIsLastEvent ==
    \A b \in boards :
        /\ HistoryOf(Db, b.id) # <<>>
        /\ LastRow(HistoryOf(Db, b.id)).stage = b.stage

\* a rejected scan has attached a slip to a board that an admin edit had
\* moved back: its last row is the attachment, at the stage it is at
C27_Witness ==
    /\ lastOp.op = "scan_upsert"
    /\ ~Succeeded(lastOp)
    /\ \E b \in boards :
          /\ b.serial_number = lastOp.serial
          /\ LastRow(HistoryOf(Db, b.id)).notes = "attach slip"
          /\ \E i \in 1..Len(HistoryOf(Db, b.id)) :
                HistoryOf(Db, b.id)[i].notes \in {"admin edit", "rework"}

-----------------------------------------------------------------------------
(* C28 *)

\* C28: a request to /maintenance/health leaves boards, board_history,
\* slips, the store file and the quarantined files as they were, and when
\* the integrity check of the store fails it answers ok = false.
C28_HealthCheckReadOnly ==
    [][(lastOp = Idle /\ lastOp'.op = "pcba_db_health")
          => /\ UNCHANGED <<boards, board_history, slips, disk>>
             /\ disk.health # "ok"
                   => /\ lastOp'.status = 200
                      /\ \A r \in lastOp'.ret : ~r.ok]_vars

-----------------------------------------------------------------------------
(* C29 *)

\* the statistics computed inside one handler, with no write between their reads
Unraced ==
    {_get_statistics(boards, Ledger)} \cup
    {events[i].statistics :
        i \in {j \in 1..Len(events) : events[j].type = "statistics_update"}}

ConsumedOf(st, k) == IF k = "AM7" THEN st.consumedAM7 ELSE st.consumedAU8

\* C29: in statistics computed with no write between their reads, the
\* consumed count of each model is at most its count of completed boards
\* that are not NG, and available plus consumed is that count.
C29_ConsumedWithinCompletedGood ==
    \A st \in Unraced : \A k \in ALLOWED_HARD_MODELS :
        /\ ConsumedOf(st, k) <= st.completedByModel[k]
        /\ AvailableOf(st, k) + ConsumedOf(st, k) = st.completedByModel[k]

\* two completed AM7 boards whose serials normalize to one string, both in
\* the ledger under two spellings: one consumed, one available
C29_Witness ==
    /\ lastOp.op = "mark_ng"
    /\ Succeeded(lastOp)
    /\ Cardinality(scans.am7) = 2
    /\ \E i \in 1..Len(events) :
          /\ events[i].type = "statistics_update"
          /\ events[i].statistics.completedByModel["AM7"] = 2
          /\ events[i].statistics.consumedAM7 = 1
          /\ events[i].statistics.availableAM7 = 1

-----------------------------------------------------------------------------
(* C30 *)

\* the figures both producers publish
Figures(st) ==
    [total |-> st.total, aging |-> st.aging, coating |-> st.coating,
     completed |-> st.completed, completedByModel |-> st.completedByModel,
     consumedAM7 |-> st.consumedAM7, consumedAU8 |-> st.consumedAU8,
     availableAM7 |-> st.availableAM7, availableAU8 |-> st.availableAU8,
     pairsDone |-> st.pairsDone]

\* both producers have run on the store and the ledger as they are
BothProduced ==
    /\ SnapDone
    /\ snap.op = "get_statistics"
    /\ lastOp.op = "_broadcast_pcba_statistics"

\* C30: when GET /statistics and the assembly module have both computed the
\* statistics of one store and one ledger, the assembly module has published
\* a payload whose total, stage counts, completed good, consumed, available
\* and pairs are those of GET /statistics.
C30_ProducersAgree ==
    BothProduced =>
        /\ Succeeded(lastOp)
        /\ \A i \in 1..Len(events) :
              Figures(events[i].statistics) = Figures(snap.ret)

=============================================================================
